---- MODULE Spec2Model ----
(***************************************************************************)
(* Model of the video analysis worker (backend/src/workers/video_analyzer  *)
(* .py) and of the HTTP retry endpoint (backend/src/main.py).              *)
(*                                                                         *)
(* The job store is the 'reports' table.  Two pollers run                  *)
(* process_pending_reports against it: the background worker thread of     *)
(* scripts/start.py and the /worker/process-pending endpoint of main.py.   *)
(* Every statement executed against the store is one atomic step; the      *)
(* work a poller does between two store statements (metadata lookups,      *)
(* download, remote model calls, parsing, merging) is folded into the      *)
(* step that follows the previous store statement.                         *)
(***************************************************************************)
EXTENDS Integers, Sequences, FiniteSets, TLC

(***************************************************************************)
(* Bounds of the model.                                                    *)
(***************************************************************************)
NumJobs == 2            \* rows of the reports table
TickStep == 16          \* minutes that pass in one Tick of the pipeline
MaxAge == 32            \* minutes since updated_at are tracked up to here

(***************************************************************************)
(* Program constants.                                                      *)
(***************************************************************************)
MAX_DURATION_FOR_FULL_ANALYSIS == 60 * 60
CHUNK_DURATION_SECONDS == 10 * 60
STALE_MINUTES == 15

Jobs == 1..NumJobs
Pollers == {"worker_thread", "scheduler_endpoint"}

None == "None"
StaleMsg == "Reset: was stuck in processing for >15 min"
DownloadError == "Failed to download video: ERROR: Sign in to confirm"
ApiError == "400 INVALID_ARGUMENT"
OverloadError == "503 UNAVAILABLE. The model is overloaded"
EmptyResponseError == "Gemini returned empty response - video may be age-restricted or unavailable"
NotADictError == "'list' object has no attribute 'get'"
NoTextError == "'NoneType' object has no attribute 'strip'"

ErrorTexts ==
    {DownloadError, ApiError, OverloadError, EmptyResponseError,
     NotADictError, NoTextError}

(***************************************************************************)
(* Result dictionaries.  A dict is a function from a set of keys; get is   *)
(* dict.get(key, default).                                                 *)
(***************************************************************************)
get(d, key, default) == IF key \in DOMAIN d THEN d[key] ELSE default

\* The second argument instead of the larger one.
last_of(a, b) == b

Max2(a, b) == IF a >= b THEN a ELSE b
Min2(a, b) == IF a <= b THEN a ELSE b

\* max(0, min(100, int(x)))
clamp(x) == Max2(0, Min2(100, x))

\* The NSFW thresholds are compared with >= instead of >.
age_inclusive_nsfw(violence_score, scary_score, nsfw_score, profanity) ==
    LET a0 == 3
        a1 == IF nsfw_score >= 60 THEN Max2(a0, 18)
              ELSE IF nsfw_score >= 40 THEN Max2(a0, 16)
              ELSE IF nsfw_score >= 20 THEN Max2(a0, 13)
              ELSE IF nsfw_score >= 10 THEN Max2(a0, 10)
              ELSE a0
        a2 == IF violence_score > 70 THEN Max2(a1, 13)
              ELSE IF violence_score > 50 THEN Max2(a1, 10)
              ELSE IF violence_score > 30 THEN Max2(a1, 7)
              ELSE IF violence_score > 15 THEN Max2(a1, 5)
              ELSE a1
        a3 == IF scary_score > 70 THEN Max2(a2, 13)
              ELSE IF scary_score > 50 THEN Max2(a2, 10)
              ELSE IF scary_score > 30 THEN Max2(a2, 7)
              ELSE IF scary_score > 15 THEN Max2(a2, 5)
              ELSE a2
    IN  IF profanity THEN Max2(a3, 10) ELSE a3

calculate_age_recommendation(violence_score, scary_score, nsfw_score, profanity) ==
    LET a0 == 3
        a1 == IF nsfw_score > 60 THEN Max2(a0, 18)
              ELSE IF nsfw_score > 40 THEN Max2(a0, 16)
              ELSE IF nsfw_score > 20 THEN Max2(a0, 13)
              ELSE IF nsfw_score > 10 THEN Max2(a0, 10)
              ELSE a0
        a2 == IF violence_score > 70 THEN Max2(a1, 13)
              ELSE IF violence_score > 50 THEN Max2(a1, 10)
              ELSE IF violence_score > 30 THEN Max2(a1, 7)
              ELSE IF violence_score > 15 THEN Max2(a1, 5)
              ELSE a1
        a3 == IF scary_score > 70 THEN Max2(a2, 13)
              ELSE IF scary_score > 50 THEN Max2(a2, 10)
              ELSE IF scary_score > 30 THEN Max2(a2, 7)
              ELSE IF scary_score > 15 THEN Max2(a2, 5)
              ELSE a2
    IN  IF profanity THEN Max2(a3, 10) ELSE a3

\* The value is stored only when d has no value under key.
setitem_if_absent(d, key, value) ==
    [k \in DOMAIN d \cup {key} |-> IF k \in DOMAIN d THEN d[k] ELSE value]

\* d[key] = value (dict item assignment)
setitem(d, key, value) ==
    [k \in DOMAIN d \cup {key} |-> IF k = key THEN value ELSE d[k]]

\* d.setdefault(key, value)
setdefault(d, key, value) ==
    IF key \in DOMAIN d THEN d ELSE setitem(d, key, value)

(***************************************************************************)
(* Values of the remote model call.  A parsed JSON value is either a dict  *)
(* with (some of) the keys of the response schema or a value that is not a *)
(* dict (a JSON array, number or string).                                  *)
(***************************************************************************)
NonDict == [non_dict |-> TRUE]
is_dict(v) == "non_dict" \notin DOMAIN v

ScoreDict(safety, violence, nsfw, scary, profanity, themes) ==
    [safety_score |-> safety, violence_score |-> violence,
     nsfw_score |-> nsfw, scary_score |-> scary,
     profanity_detected |-> profanity, themes |-> themes]

\* The fixed record of the last level of the parse cascade (lines 783-794).
DefaultResult ==
    [safety_score |-> 50, violence_score |-> 0, nsfw_score |-> 0,
     scary_score |-> 0, profanity_detected |-> FALSE, themes |-> <<>>,
     concerns |-> <<"Unable to fully analyze - API response error">>,
     positive_aspects |-> <<>>,
     summary |-> "Analysis incomplete due to technical error",
     key_moments |-> <<>>]

(***************************************************************************)
(* A response of the model for a whole video.  kind is the shape of        *)
(* response.text; json is what json.loads returns (<<>> when it raises     *)
(* JSONDecodeError); repaired is what json_repair.repair_json returns      *)
(* when it yields a value (<<>> when it raises or yields nothing); regex   *)
(* is what the regular expressions of the second fallback level find       *)
(* (<<>> when one of the four scores is not found).                        *)
(***************************************************************************)
Response(kind, json, repaired, regex) ==
    [kind |-> kind, json |-> json, repaired |-> repaired, regex |-> regex]

GeminiResponses ==
    { Response("object",
               <<ScoreDict(80, 150, 0, 20, FALSE, <<"action">>)
                 @@ [age_recommendation |-> 3]>>, <<>>, <<>>),
      Response("non_object", <<NonDict>>, <<>>, <<>>),
      Response("fenced", <<>>,
               <<ScoreDict(90, 10, 0, 0, FALSE, <<"educational">>)>>, <<>>),
      Response("truncated", <<>>, <<[safety_score |-> 70]>>, <<>>),
      Response("truncated", <<>>, <<[violence_score |-> 30]>>, <<>>),
      Response("truncated", <<>>, <<NonDict>>, <<>>),
      Response("text", <<>>, <<>>,
               <<ScoreDict(60, 40, 0, 30, TRUE, <<>>)>>),
      Response("text", <<>>, <<>>, <<>>),
      Response("empty", <<>>, <<>>, <<>>) }

Raise(error_str) == [raised |-> TRUE, exc |-> error_str]
Return(value) == [raised |-> FALSE, value |-> value]

\* Lines 700-794 of analyze_video: the empty check and the parse cascade.
parse_response(response) ==
    IF response.kind = "empty"
    THEN Raise(EmptyResponseError)
    ELSE IF response.json # <<>>
    THEN Return(response.json[1])
    ELSE IF /\ response.repaired # <<>>
            /\ is_dict(response.repaired[1])
            /\ "safety_score" \in DOMAIN response.repaired[1]
    THEN Return(response.repaired[1])
    ELSE IF response.regex # <<>>
    THEN Return([safety_score |-> response.regex[1].safety_score,
                 violence_score |-> response.regex[1].violence_score,
                 nsfw_score |-> response.regex[1].nsfw_score,
                 scary_score |-> response.regex[1].scary_score,
                 profanity_detected |-> response.regex[1].profanity_detected,
                 themes |-> response.regex[1].themes,
                 concerns |-> <<"See safety scores above for content assessment">>,
                 positive_aspects |-> <<>>,
                 summary |-> "Video analyzed - see details below",
                 key_moments |-> <<>>])
    ELSE Return(DefaultResult)

\* Lines 796-816 of analyze_video: the score columns and the stored dict.
\* A value that is not a dict has no get method.
validate_result(parsed) ==
    IF parsed.raised
    THEN parsed
    ELSE IF ~is_dict(parsed.value)
    THEN Raise(NotADictError)
    ELSE LET result == parsed.value
             safety_score == clamp(get(result, "safety_score", 50))
             violence_score == clamp(get(result, "violence_score", 0))
             nsfw_score == clamp(get(result, "nsfw_score", 0))
             scary_score == clamp(get(result, "scary_score", 0))
             profanity_detected == get(result, "profanity_detected", FALSE)
             with_arrays ==
                 setdefault(setdefault(setdefault(setdefault(result,
                     "themes", <<>>), "concerns", <<>>),
                     "positive_aspects", <<>>), "timestamps", <<>>)
             age_recommendation ==
                 calculate_age_recommendation(violence_score, scary_score,
                                              nsfw_score, profanity_detected)
         IN  Return([columns |->
                        [safety_score |-> safety_score,
                         violence_score |-> violence_score,
                         nsfw_score |-> nsfw_score,
                         scary_score |-> scary_score,
                         profanity_detected |-> profanity_detected],
                     analysis_result |->
                        setitem(with_arrays, "age_recommendation",
                                age_recommendation)])

(***************************************************************************)
(* merge_chunk_results (lines 429-502).                                    *)
(***************************************************************************)
RECURSIVE sum_safety(_)
sum_safety(chunk_results) ==
    IF chunk_results = <<>> THEN 0
    ELSE get(Head(chunk_results), "safety_score", 50)
         + sum_safety(Tail(chunk_results))

\* The score of the first chunk instead of the maximum over the chunks.
max_of_first(chunk_results, key, default) ==
    get(chunk_results[1], key, default)

RECURSIVE max_of(_, _, _)
max_of(chunk_results, key, default) ==
    IF Len(chunk_results) = 1
    THEN get(chunk_results[1], key, default)
    ELSE Max2(get(Head(chunk_results), key, default),
              max_of(Tail(chunk_results), key, default))

\* int(a / b) for b > 0: the quotient is truncated toward zero.
int_div(a, b) == IF a >= 0 THEN a \div b ELSE -((-a) \div b)

any_profanity(chunk_results) ==
    \E i \in 1..Len(chunk_results) :
        get(chunk_results[i], "profanity_detected", FALSE)

\* all_themes after the loop of lines 460-464
all_themes(chunk_results) ==
    UNION { { get(chunk_results[i], "themes", <<>>)[k] :
                k \in 1..Len(get(chunk_results[i], "themes", <<>>)) } :
            i \in 1..Len(chunk_results) }

\* list(s): the elements of a set, each once, in the order the
\* iteration of the set happens to produce.
list_of(s) ==
    { l \in [1..Cardinality(s) -> s] :
        \A i, k \in 1..Cardinality(s) : i # k => l[i] # l[k] }

\* The concatenation of the lists the chunks hold under key, in chunk
\* order (the extend calls of lines 460-464).
RECURSIVE extend_all(_, _)
extend_all(chunk_results, key) ==
    IF chunk_results = <<>> THEN <<>>
    ELSE get(Head(chunk_results), key, <<>>)
         \o extend_all(Tail(chunk_results), key)

char(text, i) == SubSeq(text, i, i)

Digits == { char("0123456789", n) : n \in 1..10 }

\* The index after the longest run of digits that starts at index i.
RECURSIVE digits_end(_, _)
digits_end(text, i) ==
    IF i <= Len(text) /\ char(text, i) \in Digits
    THEN digits_end(text, i + 1)
    ELSE i

\* int(s) for a string of decimal digits.
RECURSIVE int_of(_)
int_of(s) ==
    IF Len(s) = 0 THEN 0
    ELSE int_of(SubSeq(s, 1, Len(s) - 1)) * 10
         + (CHOOSE n \in 0..9 : char("0123456789", n + 1) = char(s, Len(s)))

\* r'at (\d+):(\d+)' matches at index i.
matches_at(text, i) ==
    /\ i + 2 <= Len(text)
    /\ SubSeq(text, i, i + 2) = "at "
    /\ digits_end(text, i + 3) > i + 3
    /\ digits_end(text, i + 3) <= Len(text)
    /\ char(text, digits_end(text, i + 3)) = ":"
    /\ digits_end(text, digits_end(text, i + 3) + 1)
           > digits_end(text, i + 3) + 1

\* re.search(r'at (\d+):(\d+)', text): <<>> when there is no match, else
\* the start of the leftmost match.
re_search(text) ==
    LET starts == { i \in 1..Len(text) : matches_at(text, i) }
    IN  IF starts = {} THEN <<>>
        ELSE << CHOOSE i \in starts : \A k \in starts : i <= k >>

extract_timestamp(text) ==
    LET match == re_search(text)
    IN  IF match # <<>>
        THEN LET colon == digits_end(text, match[1] + 3)
                 minutes == int_of(SubSeq(text, match[1] + 3, colon - 1))
                 seconds == int_of(SubSeq(text, colon + 1,
                                          digits_end(text, colon + 1) - 1))
             IN  minutes * 60 + seconds
        ELSE 0

\* A sort that puts items of equal key in the reverse of their order.
sorted_ties_reversed(list, keys) ==
    LET n == Len(list)
        rank(i) == 1 + Cardinality({ k \in 1..n :
                            \/ keys[k] < keys[i]
                            \/ keys[k] = keys[i] /\ k > i })
    IN  [ p \in 1..n |-> list[CHOOSE i \in 1..n : rank(i) = p] ]

\* sorted(list, key=...) where keys[i] is the key of list[i]: ascending,
\* items of equal key in their order in list.
sorted(list, keys) ==
    LET n == Len(list)
        rank(i) == 1 + Cardinality({ k \in 1..n :
                            \/ keys[k] < keys[i]
                            \/ keys[k] = keys[i] /\ k < i })
    IN  [ p \in 1..n |-> list[CHOOSE i \in 1..n : rank(i) = p] ]

\* list[:n]
first(list, n) == SubSeq(list, 1, Min2(n, Len(list)))

KeepTop == 10

sorted_texts(texts) ==
    first(sorted(texts, [ i \in 1..Len(texts) |->
                            extract_timestamp(texts[i]) ]), KeepTop)

sorted_key_moments(moments) ==
    first(sorted(moments, [ i \in 1..Len(moments) |->
                            get(moments[i], "timestamp_seconds", 0) ]),
          KeepTop)

\* text.lower()
lower_char(ch) ==
    IF \E n \in 1..26 : char("ABCDEFGHIJKLMNOPQRSTUVWXYZ", n) = ch
    THEN char("abcdefghijklmnopqrstuvwxyz",
              CHOOSE n \in 1..26 : char("ABCDEFGHIJKLMNOPQRSTUVWXYZ", n) = ch)
    ELSE ch

RECURSIVE lower(_)
lower(text) ==
    IF Len(text) = 0 THEN text
    ELSE lower_char(Head(text)) \o lower(Tail(text))

\* sub in text
contains(text, sub) ==
    \E i \in 1..Len(text) :
        /\ i + Len(sub) - 1 <= Len(text)
        /\ SubSeq(text, i, i + Len(sub) - 1) = sub

\* Line 413 of analyze_video_chunked:
\* 'download' in error_str.lower() or 'cookies' in error_str.lower()
has_download_words(error_str) ==
    \/ contains(lower(error_str), "download")
    \/ contains(lower(error_str), "cookies")

\* The error texts of the model that pass the test of line 413.
DownloadErrorTexts == { e \in ErrorTexts : has_download_words(e) }

\* Every error is taken for a download error.
is_download_error_any(error_str) == error_str = error_str

\* Lines 413-415 of analyze_video_chunked.
is_download_error(error_str) ==
    IF error_str \in ErrorTexts
    THEN error_str \in DownloadErrorTexts
    ELSE has_download_words(error_str)

merged_summary(chunk_results) ==
    LET summary == get(chunk_results[1], "summary",
                       "Video analyzed in multiple parts")
    IN  IF contains(summary, "Video content analyzed") \/ Len(summary) < 10
        THEN "Long video analyzed in " \o ToString(Len(chunk_results))
             \o " parts - see concerns and positive aspects with"
             \o " timestamps below"
        ELSE summary

\* The result for no chunks with a safety score of 0 instead of 50.
EmptyMergeUnsafe ==
    [safety_score |-> 0, violence_score |-> 0, nsfw_score |-> 0,
     scary_score |-> 0, profanity_detected |-> FALSE, themes |-> <<>>,
     concerns |-> <<>>, positive_aspects |-> <<>>,
     summary |-> "Analysis failed", explanation |-> "No chunks analyzed",
     recommendations |-> "Unable to provide recommendations",
     key_moments |-> <<>>]

EmptyMerge ==
    [safety_score |-> 50, violence_score |-> 0, nsfw_score |-> 0,
     scary_score |-> 0, profanity_detected |-> FALSE, themes |-> <<>>,
     concerns |-> <<>>, positive_aspects |-> <<>>,
     summary |-> "Analysis failed", explanation |-> "No chunks analyzed",
     recommendations |-> "Unable to provide recommendations",
     key_moments |-> <<>>]

\* themes_list is the list that list(all_themes) produced.
merge_chunk_results(chunk_results, themes_list) ==
    IF chunk_results = <<>>
    THEN Return(EmptyMerge)
    ELSE IF \E i \in 1..Len(chunk_results) : ~is_dict(chunk_results[i])
    THEN Raise(NotADictError)
    ELSE LET max_violence == max_of(chunk_results, "violence_score", 0)
             max_nsfw == max_of(chunk_results, "nsfw_score", 0)
             max_scary == max_of(chunk_results, "scary_score", 0)
         IN Return(
        [safety_score |->
            int_div(sum_safety(chunk_results), Len(chunk_results)),
         violence_score |-> max_violence,
         nsfw_score |-> max_nsfw,
         scary_score |-> max_scary,
         profanity_detected |-> any_profanity(chunk_results),
         themes |-> themes_list,
         concerns |-> sorted_texts(extend_all(chunk_results, "concerns")),
         positive_aspects |->
            sorted_texts(extend_all(chunk_results, "positive_aspects")),
         summary |-> merged_summary(chunk_results),
         explanation |->
            "Max violence: " \o ToString(max_violence)
            \o ", NSFW: " \o ToString(max_nsfw)
            \o ", Scary: " \o ToString(max_scary),
         recommendations |-> "Review all concerns carefully for long videos",
         key_moments |->
            sorted_key_moments(extend_all(chunk_results, "key_moments"))])

\* The merges merge_chunk_results can return for a list of chunk results.
merges(chunk_results) ==
    { merge_chunk_results(chunk_results, l) :
        l \in list_of(IF \A i \in 1..Len(chunk_results) :
                            is_dict(chunk_results[i])
                      THEN all_themes(chunk_results) ELSE {}) }

(***************************************************************************)
(* The environment of an analysis: what the metadata lookup, the download  *)
(* and the remote calls can answer.  An environment is a record            *)
(*   durations     what get_video_duration can return                      *)
(*   downloads     whether the yt-dlp download can succeed / fail          *)
(*   errors        the errors a remote call can raise                      *)
(*   responses     the responses the model can give for a whole video      *)
(*   chunk_values  what json.loads can return for the text of a chunk      *)
(*   chunk_skips   whether a split or a parse of a chunk can fail          *)
(***************************************************************************)
NoDuration == -1        \* get_video_duration returned None

GoodChunk == ScoreDict(80, 40, 0, 10, FALSE, <<"action">>)

\* A chunk whose scores are outside 0..100.
HotChunk == ScoreDict(80, 140, -5, 10, FALSE, <<>>)

FullEnv ==
    [durations |-> {NoDuration, 900, 1800, 1801, 3000, 3600, 3601, 4200},
     downloads |-> BOOLEAN,
     errors |-> {ApiError, OverloadError},
     responses |-> GeminiResponses,
     chunk_values |-> {GoodChunk, HotChunk, NonDict},
     chunk_skips |-> {TRUE, FALSE}]

\* The environment of the runs with two pollers: one answer of each kind.
SmallEnv ==
    [durations |-> {NoDuration, 3601},
     downloads |-> BOOLEAN,
     errors |-> {ApiError},
     responses |-> {r \in GeminiResponses : r.kind = "object"},
     chunk_values |-> {GoodChunk},
     chunk_skips |-> {FALSE}]

\* An unknown duration is taken for a long one.
use_chunked_unknown(d) ==
    d = NoDuration \/ d > MAX_DURATION_FOR_FULL_ANALYSIS

\* Lines 539-544 of analyze_video: chunking is tried for a known duration
\* above the ceiling.
use_chunked(d) ==
    d # NoDuration /\ d # 0 /\ d > MAX_DURATION_FOR_FULL_ANALYSIS

\* Lines 243-245.
num_chunks_of(d) == (d \div CHUNK_DURATION_SECONDS) + 1

(***************************************************************************)
(* The chunk loop of analyze_video_chunked (lines 248-377) from chunk i    *)
(* on: the set of ways it can end, either by raising or with the list of   *)
(* chunk results.  A chunk whose split fails (continue, line 263) or       *)
(* whose text does not parse (line 373) appends nothing; an upload or a    *)
(* generate_content call that raises, or a response without text, leaves   *)
(* the loop.                                                               *)
(***************************************************************************)
RECURSIVE chunk_loop(_, _, _, _)
chunk_loop(i, num_chunks, chunk_results, env) ==
    IF i = num_chunks
    THEN {Return(chunk_results)}
    ELSE { Raise(e) : e \in env.errors }
         \cup (IF TRUE \in env.chunk_skips
               THEN {Raise(NoTextError)}
                    \cup chunk_loop(i + 1, num_chunks, chunk_results, env)
               ELSE {})
         \cup UNION { chunk_loop(i + 1, num_chunks,
                                 Append(chunk_results, v), env) :
                      v \in env.chunk_values }

\* The merged result is written without an age recommendation.
chunked_save_without_age(merged, num_chunks, chunk_results) ==
    [columns |->
        [safety_score |-> merged.safety_score,
         violence_score |-> merged.violence_score,
         nsfw_score |-> merged.nsfw_score,
         scary_score |-> merged.scary_score,
         profanity_detected |-> merged.profanity_detected],
     analysis_result |-> merged,
     num_chunks |-> num_chunks,
     merged_chunks |-> Len(chunk_results)]

\* Lines 383-401: what is written for a merged result.
chunked_save(merged, num_chunks, chunk_results) ==
    [columns |->
        [safety_score |-> merged.safety_score,
         violence_score |-> merged.violence_score,
         nsfw_score |-> merged.nsfw_score,
         scary_score |-> merged.scary_score,
         profanity_detected |-> merged.profanity_detected],
     analysis_result |->
        setitem(merged, "age_recommendation",
                calculate_age_recommendation(
                    merged.violence_score, merged.scary_score,
                    merged.nsfw_score, merged.profanity_detected)),
     num_chunks |-> num_chunks,
     merged_chunks |-> Len(chunk_results)]

\* Lines 229-390 of analyze_video_chunked for a video of duration d: what
\* it is about to write, or the error it raises.
chunked_outcomes(d, download_ok, env) ==
    IF ~download_ok
    THEN {Raise(DownloadError)}
    ELSE UNION {
           IF end.raised THEN {end}
           ELSE { IF m.raised THEN m
                  ELSE Return(chunked_save(m.value, num_chunks_of(d),
                                           end.value))
                  : m \in merges(end.value) }
           : end \in chunk_loop(0, num_chunks_of(d), <<>>, env) }

\* Lines 695-816 of analyze_video: the model call behind the retry
\* wrapper either raises or returns a response, which is then parsed.
direct_outcomes(env) ==
    { Raise(e) : e \in env.errors }
    \cup { validate_result(parse_response(r)) : r \in env.responses }

(***************************************************************************)
(* State.                                                                  *)
(*   reports   the rows of the reports table, by id.  updated_ago is       *)
(*             now - updated_at in minutes, capped at MaxAge; columns and  *)
(*             analysis_result are <<>> while NULL.                        *)
(*   pc        where each poller is in process_pending_reports.            *)
(*   batch     the part of the selected 'reports' list a poller has not    *)
(*             finished; its head is the report passed to analyze_video.   *)
(*   work      what the analysis in progress is about to write: the        *)
(*             exception caught or the values to save.                     *)
(*   retry     the report a retry request has read as failed and is about  *)
(*             to reset (0: no request in progress).                       *)
(*   args,     the argument and the returned value of a function that is   *)
(*   ret       run on its own (NoCall outside such runs).                  *)
(*   wrapper   the frame of a call of the retry wrapper that is run on its *)
(*             own (NoCall outside such runs).                             *)
(*   invocation  the frame of a call of process_pending_reports that is    *)
(*             run on its own (NoCall outside such runs).                  *)
(***************************************************************************)
VARIABLES reports, pc, batch, work, retry, args, ret, wrapper, invocation

vars == <<reports, pc, batch, work, retry, args, ret, wrapper, invocation>>

NoWork == [idle |-> TRUE]
NoCall == [no_call |-> TRUE]

NewReport ==
    [status |-> "pending", error_message |-> None, updated_ago |-> 0,
     video_title |-> None, columns |-> <<>>, analysis_result |-> <<>>]

\* table('reports').update(fields) applied to one row; the store stamps
\* updated_at with the time of the statement.
update(row, fields) ==
    [k \in DOMAIN row |->
        IF k = "updated_ago" THEN 0
        ELSE IF k \in DOMAIN fields THEN fields[k]
        ELSE row[k]]

\* get_video_title never returns None (lines 126-155).
Title == "YouTube Video"

Init ==
    /\ reports = [j \in Jobs |-> NewReport]
    /\ pc = [p \in Pollers |-> "idle"]
    /\ batch = [p \in Pollers |-> <<>>]
    /\ work = [p \in Pollers |-> NoWork]
    /\ retry = 0
    /\ args = NoCall
    /\ ret = NoCall
    /\ wrapper = NoCall
    /\ invocation = NoCall

\* Time passes: every updated_at falls TickStep minutes further back.
Tick ==
    /\ \E j \in DOMAIN reports : reports[j].updated_ago < MaxAge
    /\ reports' = [j \in DOMAIN reports |->
            [reports[j] EXCEPT !.updated_ago = Min2(@ + TickStep, MaxAge)]]
    /\ UNCHANGED <<pc, batch, work, retry, args, ret, wrapper, invocation>>

\* Lines 854-861: update(...).eq('status', 'processing')
\*                           .lt('updated_at', now - 15 min)
\* The cutoff compared with <= instead of <.
is_stale_inclusive(row) ==
    row.status = "processing" /\ row.updated_ago >= STALE_MINUTES

is_stale(row) ==
    row.status = "processing" /\ row.updated_ago > STALE_MINUTES

\* A sweep that writes every processing report and the title as well.
stale_reset_all_columns(rows) ==
    [j \in DOMAIN rows |->
        IF rows[j].status = "processing"
        THEN update(rows[j], [status |-> "pending",
                              error_message |-> StaleMsg,
                              video_title |-> None])
        ELSE rows[j]]

stale_reset(rows) ==
    [j \in DOMAIN rows |->
        IF is_stale(rows[j])
        THEN update(rows[j], [status |-> "pending",
                              error_message |-> StaleMsg])
        ELSE rows[j]]

stale_sweep(p) ==
    /\ pc[p] = "idle"
    /\ reports' = stale_reset(reports)
    /\ pc' = [pc EXCEPT ![p] = "select"]
    /\ UNCHANGED <<batch, work, retry, args, ret, wrapper, invocation>>

\* The rows a select of the pending reports returns, in id order.
RECURSIVE pending_from(_, _)
pending_from(rows, j) ==
    IF j \notin DOMAIN rows THEN <<>>
    ELSE IF rows[j].status = "pending"
         THEN <<j>> \o pending_from(rows, j + 1)
         ELSE pending_from(rows, j + 1)

\* Lines 863-876: the select, and return 0 when nothing is pending.
select_pending(p) ==
    /\ pc[p] = "select"
    /\ batch' = [batch EXCEPT ![p] = pending_from(reports, 1)]
    /\ pc' = [pc EXCEPT ![p] =
                IF pending_from(reports, 1) = <<>> THEN "idle" ELSE "analyze"]
    /\ UNCHANGED <<reports, work, retry, args, ret, wrapper, invocation>>

\* Lines 883-904: the loop goes on to the next report or returns.
next_report(p) ==
    /\ batch' = [batch EXCEPT ![p] = Tail(@)]
    /\ pc' = [pc EXCEPT ![p] =
                IF Tail(batch[p]) = <<>> THEN "idle" ELSE "analyze"]
    /\ work' = [work EXCEPT ![p] = NoWork]

\* Lines 536-816 of analyze_video on the direct path, entered for a
\* duration that is unknown or not above the ceiling, or after the
\* fallback: the status is set to processing, then the model is called
\* and its response parsed.
direct_analysis(p, env) ==
    /\ \/ pc[p] = "direct"
       \/ pc[p] = "analyze" /\ \E d \in env.durations : ~use_chunked(d)
    /\ LET j == Head(batch[p]) IN
        reports' = [reports EXCEPT ![j] =
            update(@, [status |-> "processing", video_title |-> Title])]
    /\ \E outcome \in direct_outcomes(env) :
          /\ work' = [work EXCEPT ![p] = outcome]
          /\ pc' = [pc EXCEPT ![p] =
                IF outcome.raised THEN "fail_direct" ELSE "save_direct"]
    /\ UNCHANGED <<batch, retry, args, ret, wrapper, invocation>>

\* Lines 821-831 of analyze_video.
save_direct(p) ==
    /\ pc[p] = "save_direct"
    /\ LET j == Head(batch[p]) IN
        reports' = [reports EXCEPT ![j] =
            update(@, [status |-> "completed",
                       columns |-> <<work[p].value.columns>>,
                       analysis_result |->
                           <<work[p].value.analysis_result>>])]
    /\ next_report(p)
    /\ UNCHANGED <<retry, args, ret, wrapper, invocation>>

\* Lines 835-846 of analyze_video.
fail_direct(p) ==
    /\ pc[p] = "fail_direct"
    /\ LET j == Head(batch[p]) IN
        reports' = [reports EXCEPT ![j] =
            update(@, [status |-> "failed", error_message |-> work[p].exc])]
    /\ next_report(p)
    /\ UNCHANGED <<retry, args, ret, wrapper, invocation>>

\* Lines 544-549 of analyze_video and 214-390, 406-415 of
\* analyze_video_chunked, entered for a known duration above the ceiling:
\* the status is set to processing, then the video is downloaded, split,
\* and every chunk analysed; a download error is re-raised to
\* analyze_video.
chunked_analysis(p, env) ==
    /\ pc[p] = "analyze"
    /\ LET j == Head(batch[p]) IN
        reports' = [reports EXCEPT ![j] =
            update(@, [status |-> "processing", video_title |-> Title])]
    /\ \E d \in env.durations :
       \E download_ok \in env.downloads :
          /\ use_chunked(d)
          /\ \E outcome \in chunked_outcomes(d, download_ok, env) :
                /\ work' = [work EXCEPT ![p] = outcome]
                /\ pc' = [pc EXCEPT ![p] =
                      IF ~outcome.raised THEN "save_chunked"
                      ELSE IF is_download_error(outcome.exc) THEN "fallback"
                      ELSE "fail_chunked"]
    /\ UNCHANGED <<batch, retry, args, ret, wrapper, invocation>>

\* Lines 392-401 of analyze_video_chunked.
save_chunked(p) ==
    /\ pc[p] = "save_chunked"
    /\ LET j == Head(batch[p]) IN
        reports' = [reports EXCEPT ![j] =
            update(@, [status |-> "completed",
                       columns |-> <<work[p].value.columns>>,
                       analysis_result |->
                           <<work[p].value.analysis_result>>])]
    /\ next_report(p)
    /\ UNCHANGED <<retry, args, ret, wrapper, invocation>>

\* Lines 417-421 of analyze_video_chunked.
fail_chunked(p) ==
    /\ pc[p] = "fail_chunked"
    /\ LET j == Head(batch[p]) IN
        reports' = [reports EXCEPT ![j] =
            update(@, [status |-> "failed", error_message |-> work[p].exc])]
    /\ next_report(p)
    /\ UNCHANGED <<retry, args, ret, wrapper, invocation>>

\* Lines 550-560 of analyze_video: after a download error the status is
\* written again and the direct analysis follows.
fallback(p) ==
    /\ pc[p] = "fallback"
    /\ LET j == Head(batch[p]) IN
        reports' = [reports EXCEPT ![j] =
            update(@, [status |-> "processing", error_message |-> None])]
    /\ pc' = [pc EXCEPT ![p] = "direct"]
    /\ work' = [work EXCEPT ![p] = NoWork]
    /\ UNCHANGED <<batch, retry, args, ret, wrapper, invocation>>

\* main.py lines 371-378: the retry request reads the report and goes on
\* only if it is failed.
retry_check(j) ==
    /\ retry = 0
    /\ reports[j].status = "failed"
    /\ retry' = j
    /\ UNCHANGED <<reports, pc, batch, work, args, ret, wrapper, invocation>>

\* main.py lines 380-384.
retry_reset ==
    /\ retry # 0
    /\ reports' = [reports EXCEPT ![retry] =
            update(@, [status |-> "pending", error_message |-> None])]
    /\ retry' = 0
    /\ UNCHANGED <<pc, batch, work, args, ret, wrapper, invocation>>

\* Two pollers on the shared store.
Next ==
    \/ Tick
    \/ \E p \in Pollers : stale_sweep(p)
    \/ \E p \in Pollers : select_pending(p)
    \/ \E p \in Pollers : direct_analysis(p, SmallEnv)
    \/ \E p \in Pollers : save_direct(p)
    \/ \E p \in Pollers : fail_direct(p)
    \/ \E p \in Pollers : chunked_analysis(p, SmallEnv)
    \/ \E p \in Pollers : save_chunked(p)
    \/ \E p \in Pollers : fail_chunked(p)
    \/ \E p \in Pollers : fallback(p)
    \/ \E j \in DOMAIN reports : retry_check(j)
    \/ retry_reset

Spec == Init /\ [][Next]_vars

(***************************************************************************)
(* One poller, one report, every answer of the environment.                *)
(***************************************************************************)
InitAnalysis ==
    /\ reports = [j \in {1} |-> NewReport]
    /\ pc = [p \in Pollers |-> "idle"]
    /\ batch = [p \in Pollers |-> <<>>]
    /\ work = [p \in Pollers |-> NoWork]
    /\ retry = 0
    /\ args = NoCall
    /\ ret = NoCall
    /\ wrapper = NoCall
    /\ invocation = NoCall

NextAnalysis ==
    \/ Tick
    \/ stale_sweep("worker_thread")
    \/ select_pending("worker_thread")
    \/ direct_analysis("worker_thread", FullEnv)
    \/ save_direct("worker_thread")
    \/ fail_direct("worker_thread")
    \/ chunked_analysis("worker_thread", FullEnv)
    \/ save_chunked("worker_thread")
    \/ fail_chunked("worker_thread")
    \/ fallback("worker_thread")
    \/ \E j \in DOMAIN reports : retry_check(j)
    \/ retry_reset

SpecAnalysis == InitAnalysis /\ [][NextAnalysis]_vars

(***************************************************************************)
(* The stale sweep on its own, from every store a crashed or slow worker   *)
(* can leave behind.                                                       *)
(***************************************************************************)
SweepAges == {0, 14, 15, 16, 29, 30, 31}

StoredResult == validate_result(Return(DefaultResult)).value

SweepRow(status, age) ==
    [status |-> status,
     error_message |-> IF status = "failed" THEN ApiError ELSE None,
     updated_ago |-> age,
     video_title |-> IF status = "pending" THEN None ELSE Title,
     columns |-> IF status = "completed"
                 THEN <<StoredResult.columns>> ELSE <<>>,
     analysis_result |-> IF status = "completed"
                         THEN <<StoredResult.analysis_result>> ELSE <<>>]

InitSweep ==
    /\ reports \in [Jobs -> { SweepRow(s, a) :
            s \in {"pending", "processing", "completed", "failed"},
            a \in SweepAges }]
    /\ pc = [p \in Pollers |-> "idle"]
    /\ batch = [p \in Pollers |-> <<>>]
    /\ work = [p \in Pollers |-> NoWork]
    /\ retry = 0
    /\ args = NoCall
    /\ ret = NoCall
    /\ wrapper = NoCall
    /\ invocation = NoCall

NextSweep == \E p \in Pollers : stale_sweep(p)

SpecSweep == InitSweep /\ [][NextSweep]_vars

(***************************************************************************)
(* The choice between direct and chunked analysis on its own.              *)
(***************************************************************************)
MaxDuration == 7300

\* Lines 539-549 of analyze_video and 243-245 of analyze_video_chunked.
strategy_of(d) ==
    IF use_chunked(d)
    THEN [strategy |-> "chunked", num_chunks |-> num_chunks_of(d)]
    ELSE [strategy |-> "direct"]

InitStrategy ==
    /\ reports = [j \in Jobs |-> NewReport]
    /\ pc = [p \in Pollers |-> "idle"]
    /\ batch = [p \in Pollers |-> <<>>]
    /\ work = [p \in Pollers |-> NoWork]
    /\ retry = 0
    /\ args \in {NoDuration} \cup (0..MaxDuration)
    /\ ret = NoCall
    /\ wrapper = NoCall
    /\ invocation = NoCall

select_strategy ==
    /\ ret = NoCall
    /\ wrapper = NoCall
    /\ invocation = NoCall
    /\ ret' = strategy_of(args)
    /\ UNCHANGED <<reports, pc, batch, work, retry, args, wrapper, invocation>>

NextStrategy == select_strategy

SpecStrategy == InitStrategy /\ [][NextStrategy]_vars

(***************************************************************************)
(* merge_chunk_results on its own.                                         *)
(***************************************************************************)
MaxChunks == 3

MergeSpace ==
    { ScoreDict(80, 20, 0, 0, FALSE, <<"action">>),
      ScoreDict(60, 40, 5, 30, TRUE, <<"action", "scary">>),
      ScoreDict(90, 15, 50, 0, FALSE, <<>>),
      ScoreDict(10, 10, 0, 70, FALSE, <<"scary", "scary">>),
      ScoreDict(95, 90, 0, 0, FALSE, <<"animated">>),
      ScoreDict(100, 5, 0, 0, FALSE, <<"animated", "musical">>),
      ScoreDict(-7, -10, -1, -3, FALSE, <<>>),
      [themes |-> <<"musical">>] }

RECURSIVE lists_upto(_, _)
lists_upto(space, n) ==
    IF n = 0 THEN {<<>>}
    ELSE LET shorter == lists_upto(space, n - 1)
         IN  shorter \cup { Append(l, v) : l \in shorter, v \in space }

InitMerge ==
    /\ reports = [j \in Jobs |-> NewReport]
    /\ pc = [p \in Pollers |-> "idle"]
    /\ batch = [p \in Pollers |-> <<>>]
    /\ work = [p \in Pollers |-> NoWork]
    /\ retry = 0
    /\ args \in lists_upto(MergeSpace, MaxChunks)
    /\ ret = NoCall
    /\ wrapper = NoCall
    /\ invocation = NoCall

call_merge ==
    /\ ret = NoCall
    /\ wrapper = NoCall
    /\ invocation = NoCall
    /\ ret' \in merges(args)
    /\ UNCHANGED <<reports, pc, batch, work, retry, args, wrapper, invocation>>

NextMerge == call_merge

SpecMerge == InitMerge /\ [][NextMerge]_vars

(***************************************************************************)
(* merge_chunk_results on chunks that carry concerns, positive aspects,    *)
(* key moments and a summary.                                              *)
(***************************************************************************)
MaxTextChunks == 3

\* The JSON object of a chunk with the text fields of the prompt.
TextChunk(concerns, positive_aspects, key_moments, summary) ==
    [concerns |-> concerns, positive_aspects |-> positive_aspects,
     key_moments |-> key_moments, summary |-> summary]
    @@ ScoreDict(70, 30, 0, 20, FALSE, <<"action">>)

TextSpace ==
    { ScoreDict(90, 15, 50, 0, FALSE, <<>>),
      TextChunk(<<"Bad thing at 1:05", "x at 1:05", "Bad thing at 1:05",
                  "Short">>,
                <<"Characters share their toys at 0:40">>,
                <<[timestamp_seconds |-> 65, description |-> "A fight"],
                  [description |-> "No time given"]>>,
                "Video content analyzed"),
      TextChunk(<<"Loud explosion scene at 12:30",
                  "Monster chases the child at 3:07",
                  "Brief insult at 0:09",
                  "Characters argue loudly">>,
                <<"Friends apologise and make up at 14:02", "Teamwork">>,
                <<[timestamp_seconds |-> 750, description |-> "Explosion"],
                  [timestamp_seconds |-> 9, description |-> "Insult"]>>,
                "A cartoon about two friends"),
      TextChunk(<<"A monster appears suddenly at 2:10",
                  "BAD THING at 1:05",
                  "Scene repeats at 10:00 and at 0:30",
                  "A monster appears suddenly at 2:10">>,
                <<"Characters share their toys at 0:40",
                  "Calm ending with a lullaby at 19:59">>,
                <<[timestamp_seconds |-> 130, description |-> "Monster"]>>,
                "ok"),
      TextChunk(<<"A balloon bursts with a bang at 4:15",
                  "A character cries for a moment at 0:40",
                  "Thunder during the storm scene at 11:20",
                  "A toy is snatched from a child at 4:15">>,
                <<"Counting song for toddlers at 4:15",
                  "Sharing",
                  "Friends tidy up together at 0:40",
                  "Gentle narration about animals at 11:20",
                  "Characters say thank you at 4:15",
                  "Colours are named one by one at 2:00">>,
                <<[timestamp_seconds |-> 255, description |-> "Song"],
                  [timestamp_seconds |-> 40, description |-> "Tidy up"],
                  [timestamp_seconds |-> 680, description |-> "Animals"],
                  [description |-> "Opening"],
                  [timestamp_seconds |-> 255, description |-> "Thanks"],
                  [timestamp_seconds |-> 120, description |-> "Colours"]>>,
                "A calm programme for small children") }

InitTexts ==
    /\ reports = [j \in Jobs |-> NewReport]
    /\ pc = [p \in Pollers |-> "idle"]
    /\ batch = [p \in Pollers |-> <<>>]
    /\ work = [p \in Pollers |-> NoWork]
    /\ retry = 0
    /\ args \in lists_upto(TextSpace, MaxTextChunks)
    /\ ret = NoCall
    /\ wrapper = NoCall
    /\ invocation = NoCall

NextTexts == call_merge

SpecTexts == InitTexts /\ [][NextTexts]_vars

(***************************************************************************)
(* retry_with_backoff (lines 158-204) around one function.  wrapper is the *)
(* frame of one call of the wrapper: its decorator arguments, the loop     *)
(* variable, where control is, the outcome of every call of func so far    *)
(* and the delays slept so far.                                            *)
(***************************************************************************)
QuotaError == "429 RESOURCE_EXHAUSTED. Quota exceeded"
InternalError == "500 INTERNAL"
PermissionError == "403 PERMISSION_DENIED"

is_retryable(error_str) ==
    \/ contains(error_str, "503")
    \/ contains(error_str, "500")
    \/ contains(error_str, "INTERNAL")
    \/ contains(lower(error_str), "overloaded")
    \/ contains(lower(error_str), "rate limit")
    \/ contains(lower(error_str), "quota")
    \/ contains(lower(error_str), "internal error")

\* Every error is retried while attempts remain.
should_retry_any(error_str, attempt, max_retries) ==
    attempt < max_retries - 1

should_retry(error_str, attempt, max_retries) ==
    is_retryable(error_str) /\ attempt < max_retries - 1

\* The delay grows by base_delay per attempt instead of doubling.
delay_linear(base_delay, attempt) == base_delay * (attempt + 1)

delay(base_delay, attempt) == base_delay * (2 ^ attempt)

\* @retry_with_backoff(max_retries=4, base_delay=3)
DefaultPolicy == [max_retries |-> 4, base_delay |-> 3]

Policies == [max_retries : 0..DefaultPolicy.max_retries,
             base_delay : {1, DefaultPolicy.base_delay}]

FuncOutcomes ==
    { Raise(e) : e \in { OverloadError, QuotaError, InternalError,
                         ApiError, PermissionError } }
    \cup { Return("response") }

InitRetry ==
    /\ reports = [j \in Jobs |-> NewReport]
    /\ pc = [p \in Pollers |-> "idle"]
    /\ batch = [p \in Pollers |-> <<>>]
    /\ work = [p \in Pollers |-> NoWork]
    /\ retry = 0
    /\ args = NoCall
    /\ ret = NoCall
    /\ wrapper \in { [max_retries |-> policy.max_retries,
                      base_delay |-> policy.base_delay,
                      attempt |-> 0, at |-> "try",
                      history |-> <<>>, slept |-> <<>>] :
                     policy \in Policies }
    /\ invocation = NoCall

\* result = func(*args, **kwargs); return result
call_func ==
    /\ wrapper.at = "try"
    /\ wrapper.attempt < wrapper.max_retries
    /\ \E outcome \in FuncOutcomes :
         /\ wrapper' = [wrapper EXCEPT
                          !.history = Append(@, outcome),
                          !.at = IF outcome.raised THEN "except" ELSE "done"]
         /\ ret' = IF outcome.raised THEN ret ELSE outcome
    /\ UNCHANGED <<reports, pc, batch, work, retry, args, invocation>>

\* The except block: sleep and continue, or raise.
handle_error ==
    /\ wrapper.at = "except"
    /\ LET error_str == wrapper.history[Len(wrapper.history)].exc
       IN  IF should_retry(error_str, wrapper.attempt, wrapper.max_retries)
           THEN /\ wrapper' = [wrapper EXCEPT
                      !.slept = Append(@, delay(wrapper.base_delay,
                                                wrapper.attempt)),
                      !.attempt = @ + 1,
                      !.at = "try"]
                /\ ret' = ret
           ELSE /\ wrapper' = [wrapper EXCEPT !.at = "done"]
                /\ ret' = Raise(error_str)
    /\ UNCHANGED <<reports, pc, batch, work, retry, args, invocation>>

\* range(max_retries) is exhausted: the wrapper falls off its end.
loop_exit ==
    /\ wrapper.at = "try"
    /\ wrapper.attempt >= wrapper.max_retries
    /\ wrapper' = [wrapper EXCEPT !.at = "done"]
    /\ ret' = Return(None)
    /\ UNCHANGED <<reports, pc, batch, work, retry, args, invocation>>

NextRetry == call_func \/ handle_error \/ loop_exit

SpecRetry == InitRetry /\ [][NextRetry]_vars

(***************************************************************************)
(* calculate_age_recommendation on its own, for every score the clamp of   *)
(* lines 797-800 can produce.                                              *)
(***************************************************************************)
MaxScore == 100

InitAge ==
    /\ reports = [j \in Jobs |-> NewReport]
    /\ pc = [p \in Pollers |-> "idle"]
    /\ batch = [p \in Pollers |-> <<>>]
    /\ work = [p \in Pollers |-> NoWork]
    /\ retry = 0
    /\ args \in [violence_score : 0..MaxScore, scary_score : 0..MaxScore,
                 nsfw_score : 0..MaxScore, profanity : BOOLEAN]
    /\ ret = NoCall
    /\ wrapper = NoCall
    /\ invocation = NoCall

call_age ==
    /\ ret = NoCall
    /\ ret' = Return(calculate_age_recommendation(
                        args.violence_score, args.scary_score,
                        args.nsfw_score, args.profanity))
    /\ UNCHANGED <<reports, pc, batch, work, retry, args, wrapper, invocation>>

NextAge == call_age

SpecAge == InitAge /\ [][NextAge]_vars

(***************************************************************************)
(* process_pending_reports (lines 848-910) as one invocation by one        *)
(* poller on a store that holds reports in any status.  invocation is the  *)
(* frame of the call: where control is, the list 'reports' that the select *)
(* returned, the index of the loop, and the reports analyze_video was      *)
(* called for so far; args is the store at the time of the call and ret    *)
(* the value returned.  Each call of analyze_video is one step here.       *)
(***************************************************************************)
PollerAges == {0, STALE_MINUTES + 1}

\* What one analysis can be about to write when its model calls end.
analysis_outcomes ==
    direct_outcomes(SmallEnv)
    \cup chunked_outcomes(MAX_DURATION_FOR_FULL_ANALYSIS + 1, TRUE, SmallEnv)

\* The rows analyze_video can leave for a report: completed, failed, or
\* still processing when the terminal write fails as well (lines 840-846).
analyze_video(row) ==
    LET processing ==
            update(row, [status |-> "processing", video_title |-> Title])
    IN  { IF outcome.raised
          THEN update(processing, [status |-> "failed",
                                   error_message |-> outcome.exc])
          ELSE update(processing,
                      [status |-> "completed",
                       columns |-> <<outcome.value.columns>>,
                       analysis_result |->
                           <<outcome.value.analysis_result>>])
          : outcome \in analysis_outcomes }
        \cup {processing}

\* One report less than the select returned.
processed_but_last(selected) == Len(selected) - 1

\* return len(reports)
processed_count(selected) == Len(selected)

InitPoller ==
    /\ reports \in [Jobs -> { SweepRow(s, a) :
            s \in {"pending", "processing", "completed", "failed"},
            a \in PollerAges }]
    /\ pc = [p \in Pollers |-> "idle"]
    /\ batch = [p \in Pollers |-> <<>>]
    /\ work = [p \in Pollers |-> NoWork]
    /\ retry = 0
    /\ args = reports
    /\ ret = NoCall
    /\ wrapper = NoCall
    /\ invocation = [at |-> "sweep", reports |-> <<>>, idx |-> 0,
                     analysed |-> <<>>]

\* Lines 855-861; a store call that raises ends the invocation with 0
\* (lines 906-910).
poll_sweep ==
    /\ invocation.at = "sweep"
    /\ \/ /\ reports' = stale_reset(reports)
          /\ invocation' = [invocation EXCEPT !.at = "select"]
          /\ ret' = ret
       \/ /\ invocation' = [invocation EXCEPT !.at = "done"]
          /\ ret' = Return(0)
          /\ reports' = reports
    /\ UNCHANGED <<pc, batch, work, retry, args, wrapper>>

\* The select reads the store as it was before the sweep.
poll_select_unswept ==
    /\ invocation.at = "select"
    /\ \/ LET selected == pending_from(args, 1) IN
            IF selected = <<>>
            THEN /\ invocation' = [invocation EXCEPT !.at = "done"]
                 /\ ret' = Return(0)
            ELSE /\ invocation' = [invocation EXCEPT !.at = "loop",
                                       !.reports = selected, !.idx = 1]
                 /\ ret' = ret
       \/ /\ invocation' = [invocation EXCEPT !.at = "done"]
          /\ ret' = Return(0)
    /\ UNCHANGED <<reports, pc, batch, work, retry, args, wrapper>>

\* Lines 863-876.
poll_select ==
    /\ invocation.at = "select"
    /\ \/ LET selected == pending_from(reports, 1) IN
            IF selected = <<>>
            THEN /\ invocation' = [invocation EXCEPT !.at = "done"]
                 /\ ret' = Return(0)
            ELSE /\ invocation' = [invocation EXCEPT !.at = "loop",
                                       !.reports = selected, !.idx = 1]
                 /\ ret' = ret
       \/ /\ invocation' = [invocation EXCEPT !.at = "done"]
          /\ ret' = Return(0)
    /\ UNCHANGED <<reports, pc, batch, work, retry, args, wrapper>>

\* An analysis that does not complete the report ends the invocation.
poll_analyze_raising ==
    /\ invocation.at = "loop"
    /\ LET j == invocation.reports[invocation.idx] IN
        \E row \in analyze_video(reports[j]) :
           /\ reports' = [reports EXCEPT ![j] = row]
           /\ IF row.status = "completed"
              THEN /\ invocation' = [invocation EXCEPT
                         !.analysed = Append(@, j),
                         !.idx = @ + 1,
                         !.at = IF invocation.idx = Len(invocation.reports)
                                THEN "return" ELSE "loop"]
                   /\ ret' = ret
              ELSE /\ invocation' = [invocation EXCEPT
                         !.analysed = Append(@, j),
                         !.at = "done"]
                   /\ ret' = Return(0)
    /\ UNCHANGED <<pc, batch, work, retry, args, wrapper>>

\* Lines 883-898: one turn of the loop.
poll_analyze ==
    /\ invocation.at = "loop"
    /\ LET j == invocation.reports[invocation.idx] IN
        /\ \E row \in analyze_video(reports[j]) :
              reports' = [reports EXCEPT ![j] = row]
        /\ invocation' = [invocation EXCEPT
              !.analysed = Append(@, j),
              !.idx = @ + 1,
              !.at = IF invocation.idx = Len(invocation.reports)
                     THEN "return" ELSE "loop"]
    /\ UNCHANGED <<pc, batch, work, retry, args, ret, wrapper>>

\* Line 904.
poll_return ==
    /\ invocation.at = "return"
    /\ invocation' = [invocation EXCEPT !.at = "done"]
    /\ ret' = Return(processed_count(invocation.reports))
    /\ UNCHANGED <<reports, pc, batch, work, retry, args, wrapper>>

NextPoller == poll_sweep \/ poll_select \/ poll_analyze \/ poll_return

SpecPoller == InitPoller /\ [][NextPoller]_vars

(***************************************************************************)
(* URLs: str.split and the functions that take a YouTube URL apart.        *)
(***************************************************************************)
\* text.find(sub) + 1: the index of the first occurrence, 0 when absent.
index_of(text, sub) ==
    LET found == { i \in 1..Len(text) :
                     /\ i + Len(sub) - 1 <= Len(text)
                     /\ SubSeq(text, i, i + Len(sub) - 1) = sub }
    IN  IF found = {} THEN 0
        ELSE CHOOSE i \in found : \A k \in found : i <= k

\* text.split(sep) as a sequence: split(...)[1] is Python's [0].
RECURSIVE split(_, _)
split(text, sep) ==
    LET i == index_of(text, sep)
    IN  IF i = 0 THEN <<text>>
        ELSE <<SubSeq(text, 1, i - 1)>>
             \o split(SubSeq(text, i + Len(sep), Len(text)), sep)

\* video_analyzer.py lines 41-50.
extract_video_id(youtube_url) ==
    IF contains(youtube_url, "youtu.be/")
    THEN split(split(youtube_url, "youtu.be/")[2], "?")[1]
    ELSE IF contains(youtube_url, "youtube.com/watch?v=")
    THEN split(split(youtube_url, "v=")[2], "&")[1]
    ELSE None

Urls ==
    { "https://www.youtube.com/watch?v=dQw4w9WgXcQ",
      "https://youtu.be/dQw4w9WgXcQ",
      "https://www.youtube.com/watch?v=dQw4w9WgXcQ&list=xyz",
      "https://youtu.be/dQw4w9WgXcQ?t=42",
      "https://www.youtube.com/watch?list=xyz&v=dQw4w9WgXcQ",
      "https://www.youtube.com/watch?v=dQw4w9WgXcQ?t=42",
      "https://youtu.be/dQw4w9WgXcQ&list=xyz",
      "https://www.youtube.com/playlist?list=xyz",
      "https://not-youtube.com/video",
      "https://not-youtube.com/watch?v=abc",
      "https://example.com/youtu.be",
      "https://vimeo.com/12345",
      "" }

(***************************************************************************)
(* POST /analyze (main.py lines 307-361) on its own: args is the request   *)
(* and the reports table before it, ret the HTTP response.                 *)
(***************************************************************************)
HttpError(status_code) == [status_code |-> status_code]

\* main.py lines 316-326: the video id, or the 400 response.
request_video_id(youtube_url) ==
    IF contains(youtube_url, "youtube.com")
    THEN IF contains(youtube_url, "v=")
         THEN Return(split(split(youtube_url, "v=")[2], "&")[1])
         ELSE Raise(HttpError(400))
    ELSE IF contains(youtube_url, "youtu.be")
    THEN LET parts == split(youtube_url, "/")
         IN  Return(split(parts[Len(parts)], "?")[1])
    ELSE Raise(HttpError(400))

InitCreate ==
    /\ reports \in lists_upto({ SweepRow(s, 0) :
            s \in {"pending", "processing", "completed", "failed"} },
                              NumJobs)
    /\ pc = [p \in Pollers |-> "idle"]
    /\ batch = [p \in Pollers |-> <<>>]
    /\ work = [p \in Pollers |-> NoWork]
    /\ retry = 0
    /\ \E youtube_url \in Urls :
          args = [youtube_url |-> youtube_url, reports |-> reports]
    /\ ret = NoCall
    /\ wrapper = NoCall
    /\ invocation = NoCall

\* The endpoint: 400 for a rejected URL; else the insert, which stores a
\* row and returns it, returns no data, or raises (500 in both cases).
analyze_endpoint ==
    /\ ret = NoCall
    /\ LET video_id == request_video_id(args.youtube_url) IN
        IF video_id.raised
        THEN /\ ret' = video_id.exc
             /\ reports' = reports
        ELSE \/ /\ reports' = Append(reports, NewReport)
                /\ ret' = [status_code |-> 200,
                           report_id |-> Len(reports) + 1,
                           status |-> "pending"]
             \/ /\ reports' = reports
                /\ ret' = HttpError(500)
    /\ UNCHANGED <<pc, batch, work, retry, args, wrapper, invocation>>

NextCreate == analyze_endpoint

SpecCreate == InitCreate /\ [][NextCreate]_vars

(***************************************************************************)
(* The metadata lookups (lines 52-155).  The answers of the YouTube Data   *)
(* API and of the yt-dlp subprocess are inputs: api is what requests.get   *)
(* does and ytdlp what subprocess.run does.                                *)
(***************************************************************************)
Whitespace == {" ", "\n", "\t"}

\* text.strip()
RECURSIVE strip(_)
strip(text) ==
    IF Len(text) = 0 THEN text
    ELSE IF Head(text) \in Whitespace THEN strip(Tail(text))
    ELSE IF char(text, Len(text)) \in Whitespace
    THEN strip(SubSeq(text, 1, Len(text) - 1))
    ELSE text

\* One optional group (\d+)X of the duration pattern at index i: the
\* number and the index after the group; 0 and i when it does not match.
duration_group(text, i, unit) ==
    LET d == digits_end(text, i)
    IN  IF d > i /\ d <= Len(text) /\ char(text, d) = unit
        THEN [number |-> int_of(SubSeq(text, i, d - 1)), next |-> d + 1]
        ELSE [number |-> 0, next |-> i]

\* Lines 52-60: <<seconds>>, or <<>> for None.
parse_youtube_duration(duration_iso) ==
    IF ~(Len(duration_iso) >= 2 /\ SubSeq(duration_iso, 1, 2) = "PT")
    THEN <<>>
    ELSE LET hours == duration_group(duration_iso, 3, "H")
             minutes == duration_group(duration_iso, hours.next, "M")
             seconds == duration_group(duration_iso, minutes.next, "S")
         IN  << hours.number * 3600 + minutes.number * 60
                + seconds.number >>

ApiAnswers ==
    { [kind |-> "raises"],
      [kind |-> "response", status_code |-> 403, items |-> <<>>],
      [kind |-> "response", status_code |-> 200, items |-> <<>>],
      [kind |-> "response", status_code |-> 200,
       items |-> <<[title |-> "Never Gonna Give You Up",
                    duration |-> "PT3M33S"]>>],
      [kind |-> "response", status_code |-> 200,
       items |-> <<[title |-> "Lofi radio - live", duration |-> "P0D"]>>],
      [kind |-> "response", status_code |-> 200,
       items |-> <<[title |-> "", duration |-> "PT1H2M10S"]>>],
      [kind |-> "response", status_code |-> 200,
       items |-> <<[title |-> "Premiere", duration |-> "PT0S"]>>],
      [kind |-> "response", status_code |-> 200,
       items |-> <<[duration |-> "PT61M"]>>] }

\* Lines 62-93: <<metadata>>, or <<>> for None.  A missing key, and the
\* arithmetic of line 82 on a duration that did not parse, raise inside
\* the try block.
get_video_metadata_api(api) ==
    IF api.kind = "raises" \/ api.status_code # 200 \/ api.items = <<>>
    THEN <<>>
    ELSE LET item == api.items[1] IN
         IF "title" \notin DOMAIN item \/ "duration" \notin DOMAIN item
         THEN <<>>
         ELSE IF parse_youtube_duration(item.duration) = <<>>
         THEN <<>>
         ELSE << [title |-> item.title,
                  duration_seconds |->
                      parse_youtube_duration(item.duration)[1]] >>

YtDlpAnswers ==
    { [kind |-> "raises"],
      [kind |-> "exit", returncode |-> 1, stdout |-> ""],
      [kind |-> "exit", returncode |-> 0, stdout |-> ""],
      [kind |-> "exit", returncode |-> 0, stdout |-> "  \n"],
      [kind |-> "exit", returncode |-> 0,
       stdout |-> "Rick Astley - Never Gonna Give You Up\n"] }

\* Lines 126-155.  has_key: YOUTUBE_API_KEY is set.
get_video_title(youtube_url, has_key, api, ytdlp) ==
    LET video_id == extract_video_id(youtube_url)
        metadata == IF video_id # None /\ video_id # "" /\ has_key
                    THEN get_video_metadata_api(api) ELSE <<>>
    IN  IF metadata # <<>> /\ metadata[1].title # ""
        THEN metadata[1].title
        ELSE IF ytdlp.kind = "exit" /\ ytdlp.returncode = 0
                /\ strip(ytdlp.stdout) # ""
        THEN strip(ytdlp.stdout)
        ELSE IF video_id # None /\ video_id # ""
        THEN "YouTube Video (" \o video_id \o ")"
        ELSE "YouTube Video"

TitleUrls ==
    { "https://www.youtube.com/watch?v=dQw4w9WgXcQ",
      "https://youtu.be/",
      "https://vimeo.com/12345" }

InitTitle ==
    /\ reports = [j \in Jobs |-> NewReport]
    /\ pc = [p \in Pollers |-> "idle"]
    /\ batch = [p \in Pollers |-> <<>>]
    /\ work = [p \in Pollers |-> NoWork]
    /\ retry = 0
    /\ args \in [youtube_url : TitleUrls, has_key : BOOLEAN,
                 api : ApiAnswers, ytdlp : YtDlpAnswers]
    /\ ret = NoCall
    /\ wrapper = NoCall
    /\ invocation = NoCall

call_title ==
    /\ ret = NoCall
    /\ ret' = Return(get_video_title(args.youtube_url, args.has_key,
                                     args.api, args.ytdlp))
    /\ UNCHANGED <<reports, pc, batch, work, retry, args, wrapper,
                   invocation>>

NextTitle == call_title

SpecTitle == InitTitle /\ [][NextTitle]_vars

(***************************************************************************)
(* extract_video_id on its own, on URLs put together from a scheme, a      *)
(* host and path, a video id and further parameters.                       *)
(***************************************************************************)
UrlSpace ==
    { scheme \o site \o id \o params :
        scheme \in {"https://", "http://", ""},
        site \in {"www.youtube.com/watch?v=", "m.youtube.com/watch?v=",
                  "youtu.be/", "www.youtube.com/watch?list=xyz&v=",
                  "www.youtube.com/embed/", "vimeo.com/"},
        id \in {"dQw4w9WgXcQ", "abc", ""},
        params \in {"", "&list=xyz", "?t=42", "?t=42&list=xyz",
                    "&list=xyz?t=42"} }

InitVideoId ==
    /\ reports = [j \in Jobs |-> NewReport]
    /\ pc = [p \in Pollers |-> "idle"]
    /\ batch = [p \in Pollers |-> <<>>]
    /\ work = [p \in Pollers |-> NoWork]
    /\ retry = 0
    /\ args \in UrlSpace
    /\ ret = NoCall
    /\ wrapper = NoCall
    /\ invocation = NoCall

call_extract_video_id ==
    /\ ret = NoCall
    /\ ret' = Return(extract_video_id(args))
    /\ UNCHANGED <<reports, pc, batch, work, retry, args, wrapper,
                   invocation>>

NextVideoId == call_extract_video_id

SpecVideoId == InitVideoId /\ [][NextVideoId]_vars

(***************************************************************************)
(* get_video_duration (lines 95-124) and the choice of analyze_video that  *)
(* follows it (lines 538-562).                                             *)
(***************************************************************************)
is_digits(text) ==
    Len(text) > 0 /\ \A i \in 1..Len(text) : char(text, i) \in Digits

YtDlpDurations ==
    { [kind |-> "raises"],
      [kind |-> "exit", returncode |-> 1, stdout |-> ""],
      [kind |-> "exit", returncode |-> 0, stdout |-> ""],
      [kind |-> "exit", returncode |-> 0, stdout |-> "45\n"],
      [kind |-> "exit", returncode |-> 0, stdout |-> "3:33\n"],
      [kind |-> "exit", returncode |-> 0, stdout |-> "1:02:10\n"],
      [kind |-> "exit", returncode |-> 0, stdout |-> "N/A:\n"] }

\* Lines 105-122: the duration yt-dlp printed, NoDuration when the run or
\* the conversion fails or the text has one part or more than three.
ytdlp_duration(ytdlp) ==
    IF ~(ytdlp.kind = "exit" /\ ytdlp.returncode = 0
         /\ strip(ytdlp.stdout) # "")
    THEN NoDuration
    ELSE LET parts == split(strip(ytdlp.stdout), ":") IN
         IF \E i \in 1..Len(parts) : ~is_digits(parts[i])
         THEN NoDuration
         ELSE IF Len(parts) = 2
         THEN int_of(parts[1]) * 60 + int_of(parts[2])
         ELSE IF Len(parts) = 3
         THEN int_of(parts[1]) * 3600 + int_of(parts[2]) * 60
              + int_of(parts[3])
         ELSE NoDuration

get_video_duration(youtube_url, has_key, api, ytdlp) ==
    LET video_id == extract_video_id(youtube_url)
        metadata == IF video_id # None /\ video_id # "" /\ has_key
                    THEN get_video_metadata_api(api) ELSE <<>>
    IN  IF metadata # <<>> /\ metadata[1].duration_seconds # 0
        THEN metadata[1].duration_seconds
        ELSE ytdlp_duration(ytdlp)

InitDuration ==
    /\ reports = [j \in Jobs |-> NewReport]
    /\ pc = [p \in Pollers |-> "idle"]
    /\ batch = [p \in Pollers |-> <<>>]
    /\ work = [p \in Pollers |-> NoWork]
    /\ retry = 0
    /\ args \in [youtube_url : TitleUrls, has_key : BOOLEAN,
                 api : ApiAnswers, ytdlp_seconds : YtDlpDurations]
    /\ ret = NoCall
    /\ wrapper = NoCall
    /\ invocation = NoCall

\* Lines 538-562: the duration is looked up and the strategy chosen.
check_duration ==
    /\ ret = NoCall
    /\ LET duration_seconds ==
              get_video_duration(args.youtube_url, args.has_key, args.api,
                                 args.ytdlp_seconds)
       IN  ret' = [duration_seconds |-> duration_seconds,
                   chosen |-> strategy_of(duration_seconds)]
    /\ UNCHANGED <<reports, pc, batch, work, retry, args, wrapper,
                   invocation>>

NextDuration == check_duration

SpecDuration == InitDuration /\ [][NextDuration]_vars

(***************************************************************************)
(* The parse cascade on its own.  A response is described by what each     *)
(* recovery strategy yields on its text, were it tried: json.loads, then   *)
(* json_repair, then the regular expressions.  An empty text yields        *)
(* nothing anywhere.                                                       *)
(***************************************************************************)
ResponseSpace ==
    { Response("text", json, repaired, regex) :
        json \in { <<>>, <<NonDict>>, <<HotChunk>>,
                   <<ScoreDict(80, 150, 0, 20, FALSE, <<"action">>)
                     @@ [age_recommendation |-> 3]>> },
        repaired \in { <<>>, <<NonDict>>, <<[safety_score |-> 70]>>,
                       <<[violence_score |-> 30]>>,
                       <<ScoreDict(90, 10, 0, 0, FALSE,
                                   <<"educational">>)>> },
        regex \in { <<>>, <<ScoreDict(60, 40, 0, 30, TRUE, <<>>)>>,
                    <<ScoreDict(20, 90, 0, 70, FALSE, <<"horror">>)>> } }
    \cup { Response("empty", <<>>, <<>>, <<>>) }

InitParse ==
    /\ reports = [j \in Jobs |-> NewReport]
    /\ pc = [p \in Pollers |-> "idle"]
    /\ batch = [p \in Pollers |-> <<>>]
    /\ work = [p \in Pollers |-> NoWork]
    /\ retry = 0
    /\ args \in ResponseSpace
    /\ ret = NoCall
    /\ wrapper = NoCall
    /\ invocation = NoCall

\* Lines 700-794 of analyze_video applied to one response.
call_parse ==
    /\ ret = NoCall
    /\ ret' = parse_response(args)
    /\ UNCHANGED <<reports, pc, batch, work, retry, args, wrapper,
                   invocation>>

NextParse == call_parse

SpecParse == InitParse /\ [][NextParse]_vars

(***************************************************************************)
(* The chunk loop of analyze_video_chunked (lines 243-380) step by step,   *)
(* for one video that has been downloaded.  args is duration_seconds and   *)
(* invocation the frame of the call:                                       *)
(*   at             where control is                                       *)
(*   i              the loop variable                                      *)
(*   chunks         start_time and length given to ffmpeg for each chunk   *)
(*                  of the loop so far                                     *)
(*   in_flight      the chunks whose model call has been started and has   *)
(*                  not returned                                           *)
(*   chunk_results  the list the results are appended to                   *)
(*   indices        the loop variable at each append                       *)
(* ret is what merge_chunk_results returns, or the exception that left     *)
(* the loop.                                                               *)
(***************************************************************************)
MaxSegments == 8

ChunkDurations ==
    { d \in { k * CHUNK_DURATION_SECONDS + r :
                k \in 1..MaxSegments, r \in {0, 1, 300} } :
        use_chunked(d) /\ num_chunks_of(d) <= MaxSegments }

ChunkValues == {GoodChunk, HotChunk}

\* The result is put at the front of the list.
prepend_result(chunk_results, chunk_result) ==
    <<chunk_result>> \o chunk_results

\* Line 371: chunk_results.append(chunk_result)
append_result(chunk_results, chunk_result) ==
    Append(chunk_results, chunk_result)

InitChunks ==
    /\ reports = [j \in Jobs |-> NewReport]
    /\ pc = [p \in Pollers |-> "idle"]
    /\ batch = [p \in Pollers |-> <<>>]
    /\ work = [p \in Pollers |-> NoWork]
    /\ retry = 0
    /\ args \in ChunkDurations
    /\ ret = NoCall
    /\ wrapper = NoCall
    /\ invocation = [at |-> "split", i |-> 0, chunks |-> <<>>,
                     in_flight |-> {}, chunk_results |-> <<>>,
                     indices |-> <<>>]

\* Lines 249-294: ffmpeg cuts chunk i; a failed split goes on to the next
\* chunk, a good one is uploaded and the model call started.
split_chunk ==
    /\ invocation.at = "split"
    /\ invocation.i < num_chunks_of(args)
    /\ LET chunk == [start_time |-> invocation.i * CHUNK_DURATION_SECONDS,
                     length |-> CHUNK_DURATION_SECONDS]
       IN  \/ invocation' = [invocation EXCEPT
                                !.chunks = Append(@, chunk),
                                !.i = @ + 1]
           \/ invocation' = [invocation EXCEPT
                                !.chunks = Append(@, chunk),
                                !.in_flight = @ \cup {invocation.i},
                                !.at = "call"]
    /\ UNCHANGED <<reports, pc, batch, work, retry, args, ret, wrapper>>

\* Lines 356-377: the call returns; the text parses and is appended, or
\* does not and is dropped; the loop goes on.
chunk_returns ==
    /\ invocation.at = "call"
    /\ \/ \E v \in ChunkValues :
            invocation' = [invocation EXCEPT
               !.chunk_results = append_result(@, v),
               !.indices = append_result(@, invocation.i),
               !.in_flight = @ \ {invocation.i},
               !.i = @ + 1,
               !.at = "split"]
       \/ invocation' = [invocation EXCEPT
               !.in_flight = @ \ {invocation.i},
               !.i = @ + 1,
               !.at = "split"]
    /\ UNCHANGED <<reports, pc, batch, work, retry, args, ret, wrapper>>

\* The upload or the model call raises and the loop is left (line 403).
chunk_raises ==
    /\ invocation.at = "call"
    /\ invocation' = [invocation EXCEPT !.in_flight = @ \ {invocation.i},
                                        !.at = "done"]
    /\ ret' = Raise(ApiError)
    /\ UNCHANGED <<reports, pc, batch, work, retry, args, wrapper>>

\* Lines 379-380: the loop is over and the list is merged.
merge_chunks ==
    /\ invocation.at = "split"
    /\ invocation.i = num_chunks_of(args)
    /\ ret' \in merges(invocation.chunk_results)
    /\ invocation' = [invocation EXCEPT !.at = "done"]
    /\ UNCHANGED <<reports, pc, batch, work, retry, args, wrapper>>

NextChunks == split_chunk \/ chunk_returns \/ chunk_raises \/ merge_chunks

SpecChunks == InitChunks /\ [][NextChunks]_vars

(***************************************************************************)
(* The worker: main (lines 912-957) calls process_pending_reports again    *)
(* and again on a store that starts with pending reports only, while time  *)
(* passes.  The steps that make up a run of the worker are fair, and so    *)
(* is the passing of time; whether a call of the store returns or raises   *)
(* is left open.                                                           *)
(***************************************************************************)
NumLiveJobs == 1

LiveJobs == 1..NumLiveJobs

InitLive ==
    /\ reports = [j \in LiveJobs |-> NewReport]
    /\ pc = [p \in Pollers |-> "idle"]
    /\ batch = [p \in Pollers |-> <<>>]
    /\ work = [p \in Pollers |-> NoWork]
    /\ retry = 0
    /\ args = reports
    /\ ret = NoCall
    /\ wrapper = NoCall
    /\ invocation = [at |-> "sweep", reports |-> <<>>, idx |-> 0,
                     analysed |-> <<>>]

\* The worker ends after its first check.
main_once ==
    /\ invocation.at = "done"
    /\ invocation' = [invocation EXCEPT !.at = "stopped"]
    /\ UNCHANGED <<reports, pc, batch, work, retry, args, ret, wrapper>>

\* Lines 926-938 of main: after the sleep, the next check.
main ==
    /\ invocation.at = "done"
    /\ args' = reports
    /\ ret' = NoCall
    /\ invocation' = [at |-> "sweep", reports |-> <<>>, idx |-> 0,
                      analysed |-> <<>>]
    /\ UNCHANGED <<reports, pc, batch, work, retry, wrapper>>

worker_step ==
    poll_sweep \/ poll_select \/ poll_analyze \/ poll_return \/ main

NextLive == Tick \/ worker_step

SpecLive ==
    InitLive /\ [][NextLive]_vars /\ WF_vars(worker_step) /\ WF_vars(Tick)

(***************************************************************************)
(* Properties.                                                             *)
(***************************************************************************)

\* A poller holds report j from the statement that sets it to processing
\* until its terminal write.
holding(p, j) ==
    /\ pc[p] \in {"direct", "save_direct", "fail_direct", "save_chunked",
                  "fail_chunked", "fallback"}
    /\ Head(batch[p]) = j

\* The report poller p writes in a step that leaves pc[p].
current(p) == Head(batch[p])

\* C1: two pollers that both try to claim the same pending report end with
\* exactly one of them holding it: at no time do two pollers hold the same
\* report.
C1_ExclusiveClaim ==
    \A j \in DOMAIN reports : \A p, q \in Pollers :
        (holding(p, j) /\ holding(q, j)) => p = q

\* C2: every change of a report's status is one of pending->processing,
\* processing->completed, processing->failed, failed->pending and
\* processing->pending.
AllowedTransitions ==
    { <<"pending", "processing">>, <<"processing", "completed">>,
      <<"processing", "failed">>, <<"failed", "pending">>,
      <<"processing", "pending">> }

C2_StatusTransitions ==
    [][\A j \in DOMAIN reports :
          reports'[j].status # reports[j].status =>
             <<reports[j].status, reports'[j].status>> \in AllowedTransitions
      ]_vars

\* C3: the terminal failure write of a poller changes the report only if
\* the report is still processing when the write happens.
C3_GuardedFailureWrite ==
    [][\A p \in Pollers :
          (/\ pc[p] \in {"fail_direct", "fail_chunked"}
           /\ pc'[p] # pc[p]
           /\ reports[current(p)].status # "processing")
          => reports'[current(p)] = reports[current(p)]
      ]_vars

\* C4: a poller starts the analysis of a selected report, and writes to
\* it, only if the report is still pending when it sets it to processing.
C4_ClaimOnlyPending ==
    [][\A p \in Pollers :
          (pc[p] = "analyze" /\ pc'[p] # "analyze")
          => /\ reports[current(p)].status = "pending"
             /\ reports'[current(p)].status = "processing"
      ]_vars

C6_CeilingOf1800 ==
    (ret # NoCall /\ args # NoDuration) =>
        IF args <= 1800
        THEN ret.strategy = "direct"
        ELSE /\ ret.strategy = "chunked"
             /\ ret.num_chunks = (args \div 1200) + 1

\* C7: no report is failed because of the content of a response that the
\* model call returned.
ResponseContentErrors == {EmptyResponseError, NotADictError, NoTextError}

C7_ResponseNeverFailsJob ==
    \A j \in DOMAIN reports :
        reports[j].status = "failed" =>
            reports[j].error_message \notin ResponseContentErrors

\* C8: when the model call of one chunk fails with an error that is not
\* retryable, the chunked analysis does not fail the report: the report
\* is completed.
C8_SegmentFailureIsolated ==
    [][\A p \in Pollers :
          (/\ pc[p] = "fail_chunked"
           /\ work[p].exc = ApiError
           /\ pc'[p] # pc[p])
          => reports'[current(p)].status = "completed"
      ]_vars

\* C9: the merge of a video split into N chunks receives exactly N
\* results.
C9_MergeReceivesAllSegments ==
    \A p \in Pollers :
        pc[p] = "save_chunked" =>
            work[p].value.merged_chunks = work[p].value.num_chunks

\* C10: for a non-empty list of chunk results the merge returns the
\* average of the safety scores truncated toward zero, the maximum of the
\* violence, nsfw and scary scores, the OR of the profanity flags and the
\* union of the themes without duplicates (a chunk without a key counts
\* with the default of its get: 50, 0, False, []).
RECURSIVE Total(_, _)
Total(f, n) == IF n = 0 THEN 0 ELSE f[n] + Total(f, n - 1)

C10_MergeAggregates ==
    (ret # NoCall /\ args # <<>>) =>
        LET n == Len(args)
            r == ret.value
            s == Total([i \in 1..n |-> get(args[i], "safety_score", 50)], n)
            q == r.safety_score
        IN  /\ ~ret.raised
            /\ IF s >= 0 THEN q >= 0 /\ q * n <= s /\ s < (q + 1) * n
                         ELSE q <= 0 /\ q * n >= s /\ s > (q - 1) * n
            /\ \A key \in {"violence_score", "nsfw_score", "scary_score"} :
                  /\ \E i \in 1..n : r[key] = get(args[i], key, 0)
                  /\ \A i \in 1..n : get(args[i], key, 0) <= r[key]
            /\ r.profanity_detected
                  <=> \E i \in 1..n :
                         get(args[i], "profanity_detected", FALSE)
            /\ { r.themes[k] : k \in DOMAIN r.themes }
                  = UNION { { get(args[i], "themes", <<>>)[k] :
                                k \in DOMAIN get(args[i], "themes", <<>>) } :
                            i \in 1..n }
            /\ \A k1, k2 \in DOMAIN r.themes :
                  k1 # k2 => r.themes[k1] # r.themes[k2]

\* Violence scores [10, 90, 5] have been merged to 90.
C10_Witness ==
    /\ ret # NoCall
    /\ Len(args) = 3
    /\ get(args[1], "violence_score", 0) = 10
    /\ get(args[2], "violence_score", 0) = 90
    /\ get(args[3], "violence_score", 0) = 5
    /\ ret.value.violence_score = 90
    /\ Len(get(args[1], "themes", <<>>)) = 2

\* The lower-cased description of an item: its text without the timestamp.
description(text) ==
    LET match == re_search(text)
    IN  IF match = <<>> THEN lower(text)
        ELSE LET colon == digits_end(text, match[1] + 3)
             IN  lower(SubSeq(text, 1, match[1] - 1)
                       \o SubSeq(text, digits_end(text, colon + 1),
                                 Len(text)))

cleaned(texts) ==
    \A i \in 1..Len(texts) :
        /\ re_search(texts[i]) # <<>>
        /\ Len(texts[i]) >= 20
        /\ \A k \in 1..Len(texts) :
              k # i => description(texts[k]) # description(texts[i])

\* C11: after a merge every element of concerns and of positive_aspects
\* carries an 'at M:SS' timestamp, is at least 20 characters long and no
\* two elements have the same lower-cased description; the concerns
\* "Bad thing at 1:05", "x at 1:05", "Bad thing at 1:05", "Short" merge
\* to the single concern "Bad thing at 1:05".
C11_ConcernsCleaned ==
    (ret # NoCall /\ args # <<>> /\ "value" \in DOMAIN ret) =>
        /\ cleaned(ret.value.concerns)
        /\ cleaned(ret.value.positive_aspects)
        /\ (Len(args) = 1
             /\ get(args[1], "concerns", <<>>)
                   = <<"Bad thing at 1:05", "x at 1:05",
                       "Bad thing at 1:05", "Short">>)
               => ret.value.concerns = <<"Bad thing at 1:05">>

default_policy ==
    /\ wrapper # NoCall
    /\ wrapper.max_retries = 4
    /\ wrapper.base_delay = 3

all_retryable_failures ==
    \A i \in 1..Len(wrapper.history) :
        /\ wrapper.history[i].raised
        /\ is_retryable(wrapper.history[i].exc)

C13_ImmediatePropagation ==
    wrapper # NoCall =>
        \A i \in 1..Len(wrapper.history) :
            /\ (wrapper.history[i].raised
                /\ ~is_retryable(wrapper.history[i].exc))
                  => /\ i = Len(wrapper.history)
                     /\ Len(wrapper.slept) = i - 1
                     /\ wrapper.at \in {"except", "done"}
                     /\ wrapper.at = "done" => ret = wrapper.history[i]
            /\ ~wrapper.history[i].raised
                  => /\ i = Len(wrapper.history)
                     /\ Len(wrapper.slept) = i - 1
                     /\ wrapper.at = "done"
                     /\ ret = wrapper.history[i]

C13_Witness ==
    /\ default_policy
    /\ wrapper.at = "done"
    /\ Len(wrapper.history) = 2
    /\ wrapper.history[1] = Raise(OverloadError)
    /\ wrapper.history[2] = Raise(ApiError)
    /\ wrapper.slept = <<3>>
    /\ ret = Raise(ApiError)

\* The messages the code composes itself for the error_message column.
SanitisedMessages == {StaleMsg, EmptyResponseError}

\* C14: when the model call of a report has failed with a retryable error
\* at every attempt, the report is written failed, with a user-facing
\* message and not the text of the upstream error.
C14_ExhaustedRetriesFail ==
    [][\A p \in Pollers :
          (/\ pc[p] \in {"fail_direct", "fail_chunked"}
           /\ is_retryable(work[p].exc)
           /\ pc'[p] # pc[p])
          => /\ reports'[current(p)].status = "failed"
             /\ reports'[current(p)].error_message \in SanitisedMessages
      ]_vars

\* C15: the error_message of every report is empty or one of the fixed
\* user-facing messages; the text of an exception is never stored in it.
C15_SanitisedErrorMessage ==
    \A j \in DOMAIN reports :
        reports[j].error_message \in {None} \cup SanitisedMessages

\* C16: merge_chunk_results of the empty list does not raise; it returns
\* the fixed result with safety_score 50, the three content scores 0, no
\* profanity, empty themes, concerns, positive_aspects and key_moments,
\* and texts that say the analysis failed.
C16_EmptyMergeIsTotal ==
    (args = <<>> /\ ret # NoCall) =>
        /\ ~ret.raised
        /\ DOMAIN ret.value =
              {"safety_score", "violence_score", "nsfw_score",
               "scary_score", "profanity_detected", "themes", "concerns",
               "positive_aspects", "summary", "explanation",
               "recommendations", "key_moments"}
        /\ ret.value.safety_score = 50
        /\ \A key \in {"violence_score", "nsfw_score", "scary_score"} :
              ret.value[key] = 0
        /\ ret.value.profanity_detected = FALSE
        /\ \A key \in {"themes", "concerns", "positive_aspects",
                       "key_moments"} : ret.value[key] = <<>>
        /\ ret.value.summary = "Analysis failed"
        /\ ret.value.explanation = "No chunks analyzed"
        /\ ret.value.recommendations = "Unable to provide recommendations"

C16_Witness ==
    /\ args = <<>>
    /\ ret # NoCall
    /\ ~ret.raised

\* The age of the highest step of a ladder that the score exceeds (0 when
\* it exceeds none); a step is <<threshold, age>>.
ladder(score, steps) ==
    LET exceeded == { st \in steps : score > st[1] }
    IN  IF exceeded = {} THEN 0
        ELSE (CHOOSE st \in exceeded :
                 \A other \in exceeded : other[1] <= st[1])[2]

NsfwSteps == { <<60, 18>>, <<40, 16>>, <<20, 13>>, <<10, 10>> }
ViolenceSteps == { <<70, 13>>, <<50, 10>>, <<30, 7>>, <<15, 5>> }

\* C17: for scores in 0..100 the recommended age is the largest of 3, the
\* NSFW ladder, the violence ladder, the scary ladder (the same steps as
\* violence) and 10 when profanity was detected; it is one of 3, 5, 7,
\* 10, 13, 16, 18.
C17_AgeIsMaxOfLadders ==
    (ret # NoCall /\ "nsfw_score" \in DOMAIN args) =>
        LET ages == { 3,
                      ladder(args.nsfw_score, NsfwSteps),
                      ladder(args.violence_score, ViolenceSteps),
                      ladder(args.scary_score, ViolenceSteps),
                      IF args.profanity THEN 10 ELSE 0 }
        IN  /\ ret.value \in ages
            /\ \A a \in ages : a <= ret.value
            /\ ret.value \in {3, 5, 7, 10, 13, 16, 18}

C17_Witness ==
    /\ ret # NoCall
    /\ "nsfw_score" \in DOMAIN args
    /\ args.nsfw_score = 41
    /\ args.violence_score = 71
    /\ args.scary_score = 16
    /\ args.profanity
    /\ ret.value = 16

\* C18: the recommended age never drops when one input is raised and the
\* other three are kept: raising the violence, the scary or the NSFW score
\* by one, or setting the profanity flag, gives an age that is at least
\* the age returned (a raise by more is a chain of such raises).
C18_AgeMonotonic ==
    (ret # NoCall /\ "nsfw_score" \in DOMAIN args) =>
        /\ args.violence_score < MaxScore =>
              calculate_age_recommendation(
                  args.violence_score + 1, args.scary_score,
                  args.nsfw_score, args.profanity) >= ret.value
        /\ args.scary_score < MaxScore =>
              calculate_age_recommendation(
                  args.violence_score, args.scary_score + 1,
                  args.nsfw_score, args.profanity) >= ret.value
        /\ args.nsfw_score < MaxScore =>
              calculate_age_recommendation(
                  args.violence_score, args.scary_score,
                  args.nsfw_score + 1, args.profanity) >= ret.value
        /\ ~args.profanity =>
              calculate_age_recommendation(
                  args.violence_score, args.scary_score,
                  args.nsfw_score, TRUE) >= ret.value

C18_Witness ==
    /\ ret # NoCall
    /\ "nsfw_score" \in DOMAIN args
    /\ args.nsfw_score = 61
    /\ args.violence_score = 70
    /\ args.scary_score = 15
    /\ ~args.profanity
    /\ ret.value = 18

in_range(scores) ==
    \A key \in {"safety_score", "violence_score", "nsfw_score",
                "scary_score"} :
        key \in DOMAIN scores /\ scores[key] \in 0..100

C20_AgeIsDerived ==
    \A j \in DOMAIN reports :
        reports[j].status = "completed" =>
            LET stored == reports[j].columns[1]
            IN  /\ "age_recommendation"
                      \in DOMAIN reports[j].analysis_result[1]
                /\ reports[j].analysis_result[1].age_recommendation =
                      calculate_age_recommendation(
                          stored.violence_score, stored.scary_score,
                          stored.nsfw_score, stored.profanity_detected)

\* The response said age 3 for a violence score of 150; 13 is stored.
C20_Witness ==
    \E j \in DOMAIN reports :
        /\ reports[j].status = "completed"
        /\ get(reports[j].analysis_result[1], "violence_score", 0) = 150
        /\ reports[j].columns[1].violence_score = 100
        /\ reports[j].analysis_result[1].age_recommendation = 13

\* C21: a video of 50 minutes is analysed in chunks, as 3 segments
\* (20 + 20 + 10 minutes), whose results are then merged.
C21_FiftyMinutesThreeSegments ==
    (ret # NoCall /\ args = 50 * 60) =>
        /\ ret.strategy = "chunked"
        /\ ret.num_chunks = 3

\* C22: every completed report has an empty error_message, also after a
\* failure and a retry, or after a reset by the stale sweep.
C22_CompletedHasNoError ==
    \A j \in DOMAIN reports :
        reports[j].status = "completed" => reports[j].error_message = None

\* C23: the write of a retry request changes a report only if the report
\* is failed at the moment of the write, whatever pollers and other
\* requests do between the request's read and its write.
C23_RetryWritesOnlyFailed ==
    [][(retry # 0 /\ retry' = 0) => reports[retry].status = "failed"]_vars

\* C24: process_pending_reports returns the number of reports it analysed
\* in the invocation, and 0 when the select finds no pending report; when
\* no report is pending and none is stale at the call, the invocation
\* leaves every report as it was.
C24_ReturnsProcessedCount ==
    (invocation # NoCall /\ ret # NoCall) =>
        /\ ret.value = Len(invocation.analysed)
        /\ invocation.reports = <<>> => ret.value = 0
        /\ (\A j \in DOMAIN args :
               args[j].status # "pending" /\ ~is_stale(args[j]))
              => ret.value = 0 /\ reports = args

C24_Witness ==
    /\ invocation # NoCall
    /\ ret # NoCall
    /\ ret.value = 2
    /\ invocation.analysed = <<1, 2>>
    /\ args[1].status = "processing"
    /\ reports[1].status = "completed"

starts_with(text, prefix) ==
    Len(text) >= Len(prefix) /\ SubSeq(text, 1, Len(prefix)) = prefix

\* A watch URL or a short URL of YouTube, with a video id.
is_youtube_url(url) ==
    \/ /\ \E prefix \in { "https://www.youtube.com/watch?",
                          "https://youtube.com/watch?" } :
             starts_with(url, prefix)
       /\ contains(url, "?v=") \/ contains(url, "&v=")
    \/ /\ starts_with(url, "https://youtu.be/")
       /\ Len(url) > Len("https://youtu.be/")

\* C25: POST /analyze with a YouTube watch or short URL stores exactly one
\* new report, with status pending, and returns its id; a request with
\* any other URL is answered 400 or 422 and stores nothing.
C25_CreatedPending ==
    (ret # NoCall /\ "youtube_url" \in DOMAIN args) =>
        IF is_youtube_url(args.youtube_url)
        THEN ret.status_code = 200 =>
                /\ Len(reports) = Len(args.reports) + 1
                /\ SubSeq(reports, 1, Len(args.reports)) = args.reports
                /\ ret.report_id = Len(reports)
                /\ reports[ret.report_id].status = "pending"
        ELSE /\ ret.status_code \in {400, 422}
             /\ reports = args.reports

\* The title of the item the API answered with, "" when it gave none.
api_title(api) ==
    IF api.kind = "response" /\ api.status_code = 200 /\ api.items # <<>>
       /\ "title" \in DOMAIN api.items[1]
    THEN api.items[1].title ELSE ""

\* C26: get_video_title never raises and returns a non-empty string: the
\* title of the API when the API gave one for the video id, else the
\* title yt-dlp printed, else 'YouTube Video (<id>)', else 'YouTube Video'.
C26_TitleFallbacks ==
    (ret # NoCall /\ "ytdlp" \in DOMAIN args) =>
        LET video_id == extract_video_id(args.youtube_url)
            has_id == video_id # None /\ video_id # ""
        IN  /\ ~ret.raised
            /\ Len(ret.value) > 0
            /\ ret.value =
                 IF has_id /\ args.has_key /\ api_title(args.api) # ""
                 THEN api_title(args.api)
                 ELSE IF args.ytdlp.kind = "exit"
                         /\ args.ytdlp.returncode = 0
                         /\ strip(args.ytdlp.stdout) # ""
                 THEN strip(args.ytdlp.stdout)
                 ELSE IF has_id
                 THEN "YouTube Video (" \o video_id \o ")"
                 ELSE "YouTube Video"

\* The text after the first occurrence of marker.
after(text, marker) ==
    SubSeq(text, index_of(text, marker) + Len(marker), Len(text))

\* The longest prefix of text in which none of the stops occurs.
before_any(text, stops) ==
    LET cuts == { index_of(text, stop) : stop \in stops } \ {0}
    IN  IF cuts = {} THEN text
        ELSE SubSeq(text, 1, (CHOOSE i \in cuts :
                                 \A k \in cuts : i <= k) - 1)

same_id_for_the_three_forms ==
    \A id \in {"dQw4w9WgXcQ", "abc"} :
        /\ args = "https://www.youtube.com/watch?v=" \o id
              => ret.value = id
        /\ args = "https://youtu.be/" \o id => ret.value = id
        /\ args = "https://www.youtube.com/watch?v=" \o id \o "&list=xyz"
              => ret.value = id

\* C27: extract_video_id never raises; it returns the same id for the
\* watch URL, the short URL and the watch URL with further parameters,
\* the id being the characters after the marker up to the first '&' or
\* '?'; for a URL with neither marker it returns None.
C27_IdUpToFirstDelimiter ==
    ret # NoCall =>
        /\ ~ret.raised
        /\ same_id_for_the_three_forms
        /\ ret.value =
             IF contains(args, "youtu.be/")
             THEN before_any(after(args, "youtu.be/"), {"&", "?"})
             ELSE IF contains(args, "youtube.com/watch?v=")
             THEN before_any(after(args, "youtube.com/watch?v="),
                             {"&", "?"})
             ELSE None

api_lookup_fails(api) ==
    \/ api.kind = "raises"
    \/ api.status_code # 200
    \/ api.items = <<>>

ytdlp_lookup_fails(ytdlp) ==
    \/ ytdlp.kind = "raises"
    \/ ytdlp.returncode # 0
    \/ ytdlp.stdout = ""

\* C28: when the metadata API and the yt-dlp lookup both fail the
\* duration is unknown, and a report whose duration is unknown is analysed
\* directly, never in chunks.
C28_UnknownDurationIsDirect ==
    (ret # NoCall /\ "ytdlp_seconds" \in DOMAIN args) =>
        /\ (api_lookup_fails(args.api)
            /\ ytdlp_lookup_fails(args.ytdlp_seconds))
              => ret.duration_seconds = NoDuration
        /\ ret.duration_seconds = NoDuration
              => ret.chosen.strategy = "direct"

C28_Witness ==
    /\ ret # NoCall
    /\ "ytdlp_seconds" \in DOMAIN args
    /\ args.has_key
    /\ args.api.kind = "raises"
    /\ args.ytdlp_seconds.kind = "raises"
    /\ ret.duration_seconds = NoDuration
    /\ ret.chosen = [strategy |-> "direct"]

\* What the strategies yield, in priority order, as far as the cascade
\* accepts it: the direct parse, the repaired value when it is a mapping
\* with a safety score, the four scores found in the text.
strategy_results(response) ==
    << response.json,
       IF /\ response.repaired # <<>>
          /\ is_dict(response.repaired[1])
          /\ "safety_score" \in DOMAIN response.repaired[1]
       THEN response.repaired ELSE <<>>,
       response.regex >>

scores_of(d) ==
    <<d.safety_score, d.violence_score, d.nsfw_score, d.scary_score>>

is_neutral_record(d) ==
    /\ scores_of(d) = <<50, 0, 0, 0>>
    /\ d.profanity_detected = FALSE
    /\ d.themes = <<>>
    /\ d.concerns = <<>>
    /\ d.positive_aspects = <<>>
    /\ d.key_moments = <<>>

\* C29: the recovery strategies are tried in a fixed order and a later one
\* is used only when every earlier one failed; when all of them fail the
\* result is the neutral record: safety_score 50, the three content scores
\* 0, no profanity, and empty themes, concerns, positive_aspects and
\* key_moments.
C29_CascadeOrderAndNeutralDefault ==
    (ret # NoCall /\ "regex" \in DOMAIN args /\ args.kind # "empty") =>
        LET results == strategy_results(args)
            used == { i \in 1..3 : results[i] # <<>> }
        IN  /\ ~ret.raised
            /\ IF used = {}
               THEN is_neutral_record(ret.value)
               ELSE LET i == CHOOSE k \in used : \A m \in used : k <= m
                    IN  IF i = 3
                        THEN scores_of(ret.value) = scores_of(results[3][1])
                        ELSE ret.value = results[i][1]

\* The items of one field of the segments, in segment order.
RECURSIVE concatenation(_, _)
concatenation(chunk_results, field) ==
    IF chunk_results = <<>> THEN <<>>
    ELSE (IF field \in DOMAIN chunk_results[1]
          THEN chunk_results[1][field] ELSE <<>>)
         \o concatenation(Tail(chunk_results), field)

\* The seconds of the leftmost "at M:SS" of a text, 0 when it has none.
timestamp_of(text) ==
    LET n == Len(text)
        \* the first index from a on that holds no digit
        stop(a) == CHOOSE k \in a..(n + 1) :
                      /\ k = n + 1 \/ char(text, k) \notin Digits
                      /\ \A m \in a..(k - 1) : char(text, m) \in Digits
        stamp(i) == /\ i + 2 <= n
                    /\ SubSeq(text, i, i + 2) = "at "
                    /\ stop(i + 3) > i + 3
                    /\ stop(i + 3) <= n
                    /\ char(text, stop(i + 3)) = ":"
                    /\ stop(stop(i + 3) + 1) > stop(i + 3) + 1
        stamps == { i \in 1..n : stamp(i) }
    IN  IF stamps = {} THEN 0
        ELSE LET i == CHOOSE i \in stamps : \A k \in stamps : i <= k
                 colon == stop(i + 3)
             IN  int_of(SubSeq(text, i + 3, colon - 1)) * 60
                 + int_of(SubSeq(text, colon + 1, stop(colon + 1) - 1))

seconds_of(moment) ==
    IF "timestamp_seconds" \in DOMAIN moment
    THEN moment.timestamp_seconds ELSE 0

\* The n earliest items of list, the earlier in list first among items of
\* equal time; times[i] is the time of list[i] and left the set of indices
\* not taken yet.
RECURSIVE earliest(_, _, _, _)
earliest(list, times, left, n) ==
    IF n = 0 \/ left = {} THEN <<>>
    ELSE LET i == CHOOSE i \in left : \A k \in left :
                      \/ times[i] < times[k]
                      \/ times[i] = times[k] /\ i <= k
         IN  <<list[i]>> \o earliest(list, times, left \ {i}, n - 1)

ten_earliest(list, times) == earliest(list, times, 1..Len(list), 10)

non_decreasing(times) ==
    \A a, b \in 1..Len(times) : a < b => times[a] <= times[b]

texts_in_order(merged, chunk_results, field) ==
    LET all == concatenation(chunk_results, field)
        out == merged[field]
    IN  /\ Len(out) <= 10
        /\ non_decreasing([ i \in 1..Len(out) |-> timestamp_of(out[i]) ])
        /\ out = ten_earliest(all, [ i \in 1..Len(all) |->
                                       timestamp_of(all[i]) ])

range(list) == { list[i] : i \in 1..Len(list) }

\* The reports that are processing and out of date when the poller is
\* invoked.
stale_at_call ==
    { j \in DOMAIN args :
        args[j].status = "processing" /\ args[j].updated_ago > STALE_MINUTES }

\* C31: within one invocation of the poller the stale sweep is over before
\* the pending reports are selected: nothing is selected while the sweep
\* has not run, and once the select has returned, every report the sweep
\* reset is in the list the invocation goes through, and has been analysed
\* when the invocation returns its count.
C31_SweepBeforeSelect ==
    (invocation # NoCall /\ "at" \in DOMAIN invocation) =>
        /\ invocation.at = "sweep"
              => invocation.reports = <<>> /\ reports = args
        /\ invocation.at \in {"loop", "return"}
              => stale_at_call \subseteq range(invocation.reports)
        /\ (ret # NoCall /\ ret.value > 0)
              => /\ stale_at_call \subseteq range(invocation.analysed)
                 /\ \A j \in stale_at_call : reports[j].updated_ago = 0

C31_Witness ==
    /\ invocation # NoCall
    /\ "at" \in DOMAIN invocation
    /\ ret # NoCall
    /\ stale_at_call = {2}
    /\ args[1].status = "completed"
    /\ invocation.analysed = <<2>>
    /\ reports[2].status \in {"completed", "failed"}

\* C32: the stale sweep writes only status and error_message of the
\* reports it resets.  A report that is pending, completed or failed, or
\* processing and not out of date, is left as it was in every column; a
\* report that is reset keeps its title, its score columns and its
\* analysis_result.
C32_SweepFrame ==
    [][(\E p \in Pollers : pc[p] = "idle" /\ pc'[p] = "select") =>
        \A j \in DOMAIN reports :
            IF /\ reports[j].status = "processing"
               /\ reports[j].updated_ago > STALE_MINUTES
            THEN /\ reports'[j].status = "pending"
                 /\ reports'[j].error_message = StaleMsg
                 /\ reports'[j].video_title = reports[j].video_title
                 /\ reports'[j].columns = reports[j].columns
                 /\ reports'[j].analysis_result = reports[j].analysis_result
            ELSE reports'[j] = reports[j]]_vars

\* A sweep has reset the first report and has left the second, which is
\* processing and up to date, and its title.
C32_Witness ==
    /\ \E p \in Pollers : pc[p] = "select"
    /\ reports[1].status = "pending"
    /\ reports[1].error_message = StaleMsg
    /\ reports[1].video_title = Title
    /\ reports[2].status = "processing"
    /\ reports[2].updated_ago = STALE_MINUTES

\* C33: while the chunks of one video are analysed at most 5 model calls
\* are in flight, and the list of results that goes to the merge is in the
\* order of the chunk index.
C33_BoundedCallsOrderedResults ==
    (invocation # NoCall /\ "in_flight" \in DOMAIN invocation) =>
        /\ Cardinality(invocation.in_flight) <= 5
        /\ invocation.in_flight \subseteq 0..(num_chunks_of(args) - 1)
        /\ Len(invocation.chunk_results) = Len(invocation.indices)
        /\ \A a, b \in 1..Len(invocation.indices) :
              a < b => invocation.indices[a] < invocation.indices[b]

\* More than five chunks have been analysed, one has been skipped, and the
\* results that were merged are of two kinds.
C33_Witness ==
    /\ invocation # NoCall
    /\ "in_flight" \in DOMAIN invocation
    /\ ret # NoCall
    /\ ~ret.raised
    /\ Len(invocation.indices) > 5
    /\ Len(invocation.indices) < num_chunks_of(args)
    /\ invocation.chunk_results[1] = HotChunk
    /\ invocation.chunk_results[2] = GoodChunk

terminal(j) == reports[j].status \in {"completed", "failed"}

\* C34 as stated: while the worker keeps checking and every remote call
\* returns or raises, a report that is pending or processing reaches
\* completed or failed.
C34_EveryReportTerminates ==
    \A j \in LiveJobs : (~terminal(j)) ~> terminal(j)

\* The calls of the store do not raise for ever: the sweep, the select and
\* the terminal write of each report return again and again when they are
\* made again and again.
sweep_returns == poll_sweep /\ invocation'.at = "select"

select_returns == poll_select /\ invocation'.at = "loop"

terminal_write(j) ==
    /\ poll_analyze
    /\ invocation.reports[invocation.idx] = j
    /\ reports'[j].status \in {"completed", "failed"}

store_answers ==
    /\ SF_vars(sweep_returns)
    /\ SF_vars(select_returns)
    /\ \A j \in LiveJobs : SF_vars(terminal_write(j))

\* C34 with the premise it needs: if moreover the calls of the store do
\* not raise for ever, a report that is pending or processing reaches
\* completed or failed.
C34_TerminatesWhenStoreAnswers ==
    store_answers => C34_EveryReportTerminates

\* A report whose terminal write failed was left processing, was reset by
\* a later sweep and has been completed then.
C34_Witness ==
    /\ invocation # NoCall
    /\ "analysed" \in DOMAIN invocation
    /\ reports[1].status = "completed"
    /\ reports[1].error_message = StaleMsg
    /\ invocation.analysed = <<1>>

\* C35: a report that a live poller is analysing is never reset to pending
\* by the stale sweep of another poller.
C35_SweepSparesLiveWork ==
    [][\A q \in Pollers :
        (pc[q] = "idle" /\ pc'[q] = "select") =>
            \A j \in DOMAIN reports : \A p \in Pollers \ {q} :
                (holding(p, j) /\ reports[j].status = "processing")
                    => reports'[j].status = "processing"]_vars

\* C36: the chunks cut for a video of duration d are consecutive, do not
\* overlap and cover [0, d), and every chunk is non-empty: its start is
\* below d, also when d is a multiple of the chunk length.
C36_ChunksCoverVideo ==
    (invocation # NoCall /\ "chunks" \in DOMAIN invocation) =>
        LET chunks == invocation.chunks IN
        /\ \A k \in 1..Len(chunks) :
              /\ chunks[k].start_time < args
              /\ chunks[k].length > 0
              /\ k = 1 => chunks[k].start_time = 0
              /\ k > 1 => chunks[k].start_time
                            = chunks[k - 1].start_time + chunks[k - 1].length
        /\ (invocation.at = "done" /\ ~ret.raised)
              => /\ Len(chunks) > 0
                 /\ chunks[Len(chunks)].start_time
                      + chunks[Len(chunks)].length >= args

\* C37: a chunked analysis that fails with a download or cookie error does
\* not mark the report failed: the status is written as processing with
\* error_message cleared and the direct analysis runs on the same report.
\* A chunked analysis that fails with another error marks the report
\* failed, and the direct analysis is not run for it.
C37_DownloadErrorFallsBack ==
    [][\A p \in Pollers :
        /\ (pc[p] = "analyze" /\ pc'[p] \in {"fallback", "fail_chunked"})
              => /\ pc'[p] = "fallback" <=> work'[p].exc = DownloadError
                 /\ reports'[current(p)].status = "processing"
        /\ (pc[p] = "fallback" /\ pc'[p] # pc[p])
              => /\ reports'[current(p)].status = "processing"
                 /\ reports'[current(p)].error_message = None
                 /\ pc'[p] = "direct"
                 /\ batch'[p] = batch[p]
        /\ (pc[p] = "direct" /\ pc'[p] # pc[p])
              => /\ pc'[p] \in {"save_direct", "fail_direct"}
                 /\ batch'[p] = batch[p]
        /\ (pc[p] = "fail_chunked" /\ pc'[p] # pc[p])
              => /\ reports'[current(p)].status = "failed"
                 /\ reports'[current(p)].error_message = work[p].exc
                 /\ pc'[p] \in {"idle", "analyze"}
                 /\ batch'[p] = Tail(batch[p])
      ]_vars

\* The download has failed and the fallback has written the report; the
\* direct analysis is about to run on it.
C37_Witness ==
    /\ pc["worker_thread"] = "direct"
    /\ batch["worker_thread"] = <<1>>
    /\ reports[1].status = "processing"
    /\ reports[1].error_message = None
    /\ reports[1].video_title = Title

\* C38: when every chunk of a chunked analysis is skipped and no chunk
\* result exists, the report is written as completed with the fixed result
\* of the empty merge: safety_score 50, the content scores 0 and
\* age_recommendation 3.
C38_AllChunksSkippedCompletes ==
    [][\A p \in Pollers :
        (/\ pc[p] = "save_chunked"
         /\ work[p].value.merged_chunks = 0
         /\ pc'[p] # pc[p])
        => LET row == reports'[current(p)] IN
           /\ row.status = "completed"
           /\ row.columns =
                 <<[safety_score |-> 50, violence_score |-> 0,
                    nsfw_score |-> 0, scary_score |-> 0,
                    profanity_detected |-> FALSE]>>
           /\ Len(row.analysis_result) = 1
           /\ row.analysis_result[1].safety_score = 50
           /\ row.analysis_result[1].violence_score = 0
           /\ row.analysis_result[1].nsfw_score = 0
           /\ row.analysis_result[1].scary_score = 0
           /\ row.analysis_result[1].summary = "Analysis failed"
           /\ "age_recommendation" \in DOMAIN row.analysis_result[1]
           /\ row.analysis_result[1].age_recommendation = 3
      ]_vars

\* A report of a video in chunks has been completed with the result of the
\* empty merge.
C38_Witness ==
    /\ reports[1].status = "completed"
    /\ reports[1].analysis_result # <<>>
    /\ "summary" \in DOMAIN reports[1].analysis_result[1]
    /\ reports[1].analysis_result[1].summary = "Analysis failed"
    /\ reports[1].analysis_result[1].age_recommendation = 3
    /\ reports[1].columns[1].safety_score = 50

\* C39: within one invocation of the poller an analysis that fails, its
\* terminal write included, does not end the batch: the reports the select
\* returned are analysed one after the other in the order returned, all of
\* them, and the poller returns a value and never raises.
C39_BatchSurvivesFailure ==
    (invocation # NoCall /\ "analysed" \in DOMAIN invocation) =>
        /\ invocation.at = "loop"
              => /\ invocation.idx \in 1..Len(invocation.reports)
                 /\ invocation.analysed
                      = SubSeq(invocation.reports, 1, invocation.idx - 1)
        /\ invocation.at \in {"return", "done"}
              => invocation.analysed = invocation.reports
        /\ \A a, b \in 1..Len(invocation.reports) :
              a < b => invocation.reports[a] < invocation.reports[b]
        /\ ret # NoCall => ~ret.raised

\* The first report of the batch was failed, the terminal write of the
\* second did not succeed, and the invocation has returned.
C39_Witness ==
    /\ invocation # NoCall
    /\ "analysed" \in DOMAIN invocation
    /\ ret # NoCall
    /\ args[1].status = "pending"
    /\ args[2].status = "pending"
    /\ reports[1].status = "failed"
    /\ reports[2].status = "processing"
    /\ invocation.analysed = <<1, 2>>

====
